---------------------------- MODULE Spec2Model ----------------------------
(***************************************************************************)
(* riboSeed: the iterative seed-extension loop of riboSeed/riboSeed.py.    *)
(*                                                                         *)
(* The model follows the __main__ loop (src/riboSeed/riboSeed.py           *)
(* 1959-2186) and the functions it calls: map_to_genome_ref_bwa/smalt,     *)
(* partition_mapping, prepare_next_mapping, make_unmapped_partition_cmds,  *)
(* evaluate_spades_success, parse_subassembly_return_code and              *)
(* make_faux_genome.                                                       *)
(*                                                                         *)
(* Sequences are kept run-length encoded: a genome is a sequence of        *)
(* segments [kind, clu, iter, len]; kind "ref" is the original reference,  *)
(* "N" a buffer of ambiguity symbols and "contig" the contig assembled     *)
(* for cluster clu in iteration iter.  The external tools (aligner,        *)
(* assembler, samtools) are nondeterministic: the aligner places every     *)
(* record of the mapped library inside at most one cluster's range or      *)
(* outside all of them, the assembler yields no output or a contig whose   *)
(* length is drawn from ContigChoices.                                     *)
(*                                                                         *)
(* LociCluster.__init__ (riboSnag.py 83) stores its flag under the name    *)
(* keep_contig while riboSeed.py reads and writes keep_contigs; the model  *)
(* of the loop keeps one field, keep_contigs, for both names.  SpecCatalog *)
(* keeps the two names apart: it starts from the clusters as               *)
(* parse_clustered_loci_file builds them and takes the first selection of  *)
(* the loop.                                                               *)
(***************************************************************************)
EXTENDS Integers, Sequences, FiniteSets, TLC

VARIABLES
    args,               \* the inputs of the run: the command line (iterations,
                        \* keep_temps, ignoreS, fastqS, serialize, flank,
                        \* thresholds),
                        \* the reads of the user's library that are followed
                        \* and whether a command of a unit can fail (faults)
    pc,                 \* position of __main__
    this_iteration,     \* seedGenome.this_iteration
    next_reference_path,\* seedGenome.next_reference_path (a genome id)
    genome_files,       \* genome id -> segments written to disk (<<>>: no file)
    clusters,           \* seedGenome.loci_clusters: index -> LociCluster
    master_ngs_ob,      \* seedGenome.master_ngs_ob
    unmapped_ngsLib,    \* the variable unmapped_ngsLib of __main__
    read_files,         \* the read files present on disk
    iter_mapping_list,  \* seedGenome.iter_mapping_list: iteration -> LociMapping
    pending,            \* clusters whose extract/convert/assemble unit is running
    results,            \* cluster -> what subprocess_run_list returned for its
                        \* unit in the pool (None: nothing yet)
    passes,             \* loop passes started so far
    final_long_reads_dir, \* the contig files under seedGenome.final_long_reads_dir
    ev                  \* last call of evaluate_spades_success on drawn inputs

vars == <<args, pc, this_iteration, next_reference_path, genome_files, clusters,
          master_ngs_ob, unmapped_ngsLib, read_files, iter_mapping_list,
          pending, results, passes, ev,
                   final_long_reads_dir>>

loopvars == <<args, pc, this_iteration, next_reference_path, genome_files,
              clusters, master_ngs_ob, unmapped_ngsLib, read_files,
              iter_mapping_list, pending, results, passes, final_long_reads_dir>>

-----------------------------------------------------------------------------
(* Bounds of the model *)

\* largest value of --iterations explored
MaxIterations == 2
\* largest number of clusters in a cluster file
MaxClusters == 3
\* largest number of loci in a cluster of a cluster file
MaxLoci == 4
\* number of singleton reads followed, besides one read pair
NSingletons == 2
\* length of the reference sequence
RefLen == 60000
\* growth of a contig the assembler extended
GrowStep == 100
\* growth of a contig that barely changed
SmallStep == 5

(* Program constants *)

\* --min_assembly_len default
min_assembly_len_default == 6000
\* nbuff passed to make_faux_genome
nbuff == 5000
\* min_delta default of evaluate_spades_success
min_delta_default == 10
\* DANGEROUS_CONTIG_LENGTH_THRESHOLD_FACTOR
DANGEROUS_CONTIG_LENGTH_THRESHOLD_FACTOR == 3
\* the value Python's None has in integer-valued fields
None == -1
\* evaluate_spades_success left through sys.exit(1) instead of returning
SysExit == -2

\* --flanking_length default '1000', used up- and downstream
flank == <<1000, 1000>>

Clusters == {1, 2}


Min(a, b) == IF a < b THEN a ELSE b
Max(a, b) == IF a > b THEN a ELSE b
Abs(x) == IF x < 0 THEN 0 - x ELSE x

RECURSIVE SeqMin(_)
SeqMin(s) == IF Len(s) = 1 THEN s[1] ELSE Min(s[1], SeqMin(Tail(s)))

RECURSIVE SeqMax(_)
SeqMax(s) == IF Len(s) = 1 THEN s[1] ELSE Max(s[1], SeqMax(Tail(s)))

-----------------------------------------------------------------------------
(* Sequences as runs of segments *)

RefSeg == [kind |-> "ref", clu |-> 0, iter |-> 0, from |-> 0, len |-> RefLen]
NSeg(n) == [kind |-> "N", clu |-> 0, iter |-> 0, from |-> 0, len |-> n]
ContigSeg(c, i, n) == [kind |-> "contig", clu |-> c, iter |-> i, from |-> 0, len |-> n]

RECURSIVE SegsLen(_)
SegsLen(segs) == IF segs = <<>> THEN 0 ELSE Head(segs).len + SegsLen(Tail(segs))

\* Python's seq[a:b] on a run-length encoded sequence whose first segment
\* starts at offset off: the symbols at 0-based offsets a .. b-1
RECURSIVE SliceFrom(_, _, _, _)
SliceFrom(segs, off, a, b) ==
    IF segs = <<>> THEN <<>>
    ELSE LET s  == Head(segs)
             lo == Max(a, off)
             hi == Min(b, off + s.len)
         IN  (IF hi > lo
              THEN <<[s EXCEPT !.from = s.from + (lo - off), !.len = hi - lo]>>
              ELSE <<>>)
             \o SliceFrom(Tail(segs), off + s.len, a, b)

Slice(segs, a, b) == SliceFrom(segs, 0, a, b)

-----------------------------------------------------------------------------
(* evaluate_spades_success: the return code, or SysExit *)

\* evaluate_spades_success with the plateau rule applied to growth only
evaluate_spades_success_growth_only(contig_len, seed_len, iteration, th) ==
    IF ~(contig_len > 0) THEN 3
    ELSE IF th.proceed_to_target /\ ~(th.target10 > 0 /\ 50 > th.target10)
                                 /\ ~(th.target10 > 500) THEN SysExit
    ELSE LET target_seed_len ==
                 IF th.target10 > 0 /\ 50 > th.target10
                 THEN (th.target10 * seed_len) \div 10
                 ELSE th.target10 \div 10
             ref_len == seed_len
             contig_length_diff == contig_len - ref_len
         IN  IF contig_len > ref_len * DANGEROUS_CONTIG_LENGTH_THRESHOLD_FACTOR
             THEN 2
             ELSE IF th.min_assembly_len > contig_len
             THEN (IF th.include_short_contigs THEN 1 ELSE 2)
             ELSE IF th.proceed_to_target /\ contig_len >= target_seed_len THEN 1
             ELSE IF contig_length_diff >= 0 /\ th.min_delta > contig_length_diff
                     /\ iteration # 0 THEN 1
             ELSE 0

\* evaluate_spades_success taking the target as reached only by a contig
\* longer than it
evaluate_spades_success_target_exceeded(contig_len, seed_len, iteration, th) ==
    IF ~(contig_len > 0) THEN 3
    ELSE IF th.proceed_to_target /\ ~(th.target10 > 0 /\ 50 > th.target10)
                                 /\ ~(th.target10 > 500) THEN SysExit
    ELSE LET target_seed_len ==
                 IF th.target10 > 0 /\ 50 > th.target10
                 THEN (th.target10 * seed_len) \div 10
                 ELSE th.target10 \div 10
             ref_len == seed_len
             contig_length_diff == contig_len - ref_len
         IN  IF contig_len > ref_len * DANGEROUS_CONTIG_LENGTH_THRESHOLD_FACTOR
             THEN 2
             ELSE IF th.min_assembly_len > contig_len
             THEN (IF th.include_short_contigs THEN 1 ELSE 2)
             ELSE IF th.proceed_to_target /\ contig_len > target_seed_len THEN 1
             ELSE IF th.min_delta > Abs(contig_length_diff) /\ iteration # 0 THEN 1
             ELSE 0

\* target_len is a float on the command line; the model holds it in tenths
\* (th.target10 = 10 * target_len), so 5 > target_len is target10 < 50.
\* th holds proceed_to_target, target10, include_short_contigs,
\* min_assembly_len and min_delta; contig_len = 0 stands for a missing or
\* empty contigs.fasta
evaluate_spades_success(contig_len, seed_len, iteration, th) ==
    IF ~(contig_len > 0) THEN 3
    ELSE IF th.proceed_to_target /\ ~(th.target10 > 0 /\ 50 > th.target10)
                                 /\ ~(th.target10 > 500) THEN SysExit
    ELSE LET target_seed_len ==
                 IF th.target10 > 0 /\ 50 > th.target10
                 THEN (th.target10 * seed_len) \div 10
                 ELSE th.target10 \div 10
             ref_len == seed_len
             contig_length_diff == contig_len - ref_len
         IN  IF contig_len > ref_len * DANGEROUS_CONTIG_LENGTH_THRESHOLD_FACTOR
             THEN 2
             ELSE IF th.min_assembly_len > contig_len
             THEN (IF th.include_short_contigs THEN 1 ELSE 2)
             ELSE IF th.proceed_to_target /\ contig_len >= target_seed_len THEN 1
             ELSE IF th.min_delta > Abs(contig_length_diff) /\ iteration # 0 THEN 1
             ELSE 0

\* parse_subassembly_return_code leaving the flags of a cluster without
\* assembler output as they are
parse_subassembly_return_code_keeping_failed(cluster) ==
    IF cluster.assembly_success = 3
    THEN cluster
    ELSE IF cluster.assembly_success \in {1, 2}
    THEN [cluster EXCEPT !.continue_iterating = FALSE, !.keep_contigs = FALSE]
    ELSE [cluster EXCEPT !.continue_iterating = TRUE, !.keep_contigs = TRUE]

\* parse_subassembly_return_code: the cluster with its flags set from
\* cluster.assembly_success
parse_subassembly_return_code(cluster) ==
    IF cluster.assembly_success = 3
    THEN [cluster EXCEPT !.continue_iterating = FALSE, !.keep_contigs = FALSE]
    ELSE IF cluster.assembly_success = 2
    THEN [cluster EXCEPT !.continue_iterating = FALSE, !.keep_contigs = FALSE]
    ELSE IF cluster.assembly_success = 1
    THEN [cluster EXCEPT !.continue_iterating = FALSE, !.keep_contigs = FALSE]
    ELSE [cluster EXCEPT !.continue_iterating = TRUE, !.keep_contigs = TRUE]

-----------------------------------------------------------------------------
(* make_faux_genome *)

LastMapping(cluster) == cluster.mappings[Len(cluster.mappings)]

\* FauxStep with the start offset taken before the buffer is appended
FauxStep_start_before_buffer(st, c) ==
    LET clu == st.clusters[c]
    IN  IF ~clu.keep_contigs \/ ~clu.continue_iterating THEN st
        ELSE LET start  == SegsLen(st.faux_genome)
                 contig == ContigSeg(c, LastMapping(clu).iteration,
                                     LastMapping(clu).contig_len)
                 faux   == st.faux_genome \o <<NSeg(nbuff), contig>>
             IN  [faux_genome |-> faux,
                  clusters |-> [st.clusters EXCEPT
                                   ![c].global_start_coord = start,
                                   ![c].global_end_coord = SegsLen(faux),
                                   ![c].sequence_id = "faux"],
                  counter |-> st.counter + 1]

\* FauxStep taking the contig of every cluster of the list, whatever its
\* flags
FauxStep_whatever_flags(st, c) ==
    LET clu == st.clusters[c]
        start  == SegsLen(st.faux_genome) + nbuff
        contig == ContigSeg(c, LastMapping(clu).iteration,
                            LastMapping(clu).contig_len)
        faux   == st.faux_genome \o <<NSeg(nbuff), contig>>
    IN  [faux_genome |-> faux,
         clusters |-> [st.clusters EXCEPT
                          ![c].global_start_coord = start,
                          ![c].global_end_coord = SegsLen(faux),
                          ![c].sequence_id = "faux"],
         counter |-> st.counter + 1]

\* the loop body of make_faux_genome for one cluster: st holds faux_genome,
\* the clusters and counter
FauxStep(st, c) ==
    LET clu == st.clusters[c]
    IN  IF ~clu.keep_contigs \/ ~clu.continue_iterating THEN st
        ELSE LET start  == SegsLen(st.faux_genome) + nbuff
                 contig == ContigSeg(c, LastMapping(clu).iteration,
                                     LastMapping(clu).contig_len)
                 faux   == st.faux_genome \o <<NSeg(nbuff), contig>>
             IN  [faux_genome |-> faux,
                  clusters |-> [st.clusters EXCEPT
                                   ![c].global_start_coord = start,
                                   ![c].global_end_coord = SegsLen(faux),
                                   ![c].sequence_id = "faux"],
                  counter |-> st.counter + 1]

RECURSIVE FauxFold(_, _)
FauxFold(st, cluster_list) ==
    IF cluster_list = <<>> THEN st
    ELSE FauxFold(FauxStep(st, Head(cluster_list)), Tail(cluster_list))

\* make_faux_genome: ok is FALSE when the sentinel 1 is returned; record is
\* the sequence written to iter_<iteration>_buffered_genome.fasta
make_faux_genome(cluster_list, clus) ==
    LET st == FauxFold([faux_genome |-> <<>>, clusters |-> clus, counter |-> 0],
                       cluster_list)
    IN  IF Len(cluster_list) = 0
        THEN [ok |-> FALSE, clusters |-> clus, record |-> <<>>]
        ELSE IF st.counter = 0
        THEN [ok |-> FALSE, clusters |-> st.clusters, record |-> <<>>]
        ELSE [ok |-> TRUE, clusters |-> st.clusters,
              record |-> st.faux_genome \o <<NSeg(nbuff)>>]

-----------------------------------------------------------------------------
(* Reads and read libraries *)

\* The reads the model follows.  A record is one line of an alignment: the
\* read identifier and which mate it is (0: a singleton).  The libraries
\* hold other reads too; only the followed ones are kept in the state.
PairRecords == {[id |-> 1, mate |-> m] : m \in {1, 2}}
SingletonRecords == {[id |-> 1 + i, mate |-> 0] : i \in 1..NSingletons}
AllRecords == PairRecords \cup SingletonRecords

\* the order in which samtools view lists the records (by identifier, mate)
RecordBefore(r, q) == r.id < q.id \/ (r.id = q.id /\ r.mate < q.mate)

RECURSIVE RecordsInOrder(_)
RecordsInOrder(S) ==
    IF S = {} THEN <<>>
    ELSE LET first == CHOOSE r \in S : \A q \in S \ {r} : RecordBefore(r, q)
         IN  <<first>> \o RecordsInOrder(S \ {first})

\* samtools view ... | cut -f1: the identifier column of the records
RECURSIVE CutF1(_)
CutF1(recs) == IF recs = <<>> THEN <<>> ELSE <<Head(recs).id>> \o CutF1(Tail(recs))

Range(s) == {s[i] : i \in DOMAIN s}

\* a read file on disk; NoFile is Python's None in a read-file attribute
NoFile == [lib |-> "None", iter |-> 0, key |-> "None"]
MasterFile(key) == [lib |-> "master", iter |-> 0, key |-> key]
UnmappedFile(i, key) == [lib |-> "unmapped", iter |-> i, key |-> key]

\* the followed records a read file holds; the fastq written from iteration
\* i-1's unmapped_sam holds the records of that alignment
FileRecords(f, maplist) ==
    IF f.lib = "master"
    THEN (IF f.key = "readF" THEN {r \in PairRecords : r.mate = 1}
          ELSE IF f.key = "readR" THEN {r \in PairRecords : r.mate = 2}
          ELSE SingletonRecords) \cap args.followed
    ELSE IF f.lib = "unmapped" /\ f.key = "readS"
    THEN maplist[f.iter - 1].unmapped_sam
    ELSE {}

\* NgsLib.__init__ for the user's library
MasterLib(fastqS) ==
    [master |-> TRUE,
     readF |-> MasterFile("readF"),
     readR |-> MasterFile("readR"),
     readS0 |-> IF fastqS THEN MasterFile("readS") ELSE NoFile,
     ref_fasta |-> 0,
     mapping_success |-> FALSE]

\* convert_bam_to_fastqs_cmd(which='unmapped', single=True): the NgsLib it
\* returns for the library mapped in iteration i
convert_bam_to_fastqs_cmd(i, ref_fasta) ==
    [master |-> FALSE,
     readF |-> UnmappedFile(i, "readF"),
     readR |-> UnmappedFile(i, "readR"),
     readS0 |-> UnmappedFile(i, "readS"),
     ref_fasta |-> ref_fasta,
     mapping_success |-> FALSE]

\* NgsLib.purge_old_files: the files left on disk
NgsLib_purge_old_files(lib, files) ==
    files \ {f \in {lib.readF, lib.readR, lib.readS0} : f # NoFile}

\* nonify_empty_lib_files: a read file that is missing or empty is set to
\* None.  files holds the read files that exist and are not empty
nonify_empty_lib_files(lib, files) ==
    LET keep(f) == IF f = NoFile THEN NoFile
                   ELSE IF f \notin files THEN NoFile
                   ELSE f
    IN  [lib EXCEPT !.readF = keep(lib.readF), !.readR = keep(lib.readR),
                    !.readS0 = keep(lib.readS0)]

\* map_to_genome_ref with mapping_success set before the commands are run
map_to_genome_ref_flag_first(lib, files, single_lib, ignore_singletons) ==
    LET l1 == nonify_empty_lib_files(lib, files)
        pe == IF single_lib THEN {} ELSE {l1.readF, l1.readR}
        useS == l1.readS0 # NoFile /\ ~ignore_singletons
    IN  [lib |-> [(IF useS THEN l1 ELSE [l1 EXCEPT !.readS0 = NoFile])
                     EXCEPT !.mapping_success = TRUE],
         inputs |-> pe \cup (IF useS THEN {l1.readS0} ELSE {})]

\* map_to_genome_ref_bwa / map_to_genome_ref_smalt up to the commands: the
\* library as the function leaves it and the read files handed to the aligner
map_to_genome_ref(lib, files, single_lib, ignore_singletons) ==
    LET l1 == nonify_empty_lib_files(lib, files)
        pe == IF single_lib THEN {} ELSE {l1.readF, l1.readR}
        useS == l1.readS0 # NoFile /\ ~ignore_singletons
    IN  [lib |-> IF useS THEN l1 ELSE [l1 EXCEPT !.readS0 = NoFile],
         inputs |-> pe \cup (IF useS THEN {l1.readS0} ELSE {})]

-----------------------------------------------------------------------------
(* Clusters and their mappings *)

\* LociCluster.__init__ and add_coords_to_clusters: a cluster of the
\* reference with its loci (1-based start and end of each locus)
NewCluster(index, loci) ==
    [index |-> index,
     sequence_id |-> "ref",
     loci_list |-> loci,
     global_start_coord |-> None,
     global_end_coord |-> None,
     seq_record |-> 0,
     continue_iterating |-> TRUE,
     keep_contigs |-> TRUE,
     assembly_success |-> None,
     mappings |-> <<>>]

\* the clusters of the run: three loci in the body of the reference, and one
\* locus whose downstream flank runs past the end of the reference
LociOf(c) ==
    IF c = 1
    THEN <<[start_coord |-> 2000, end_coord |-> 3500],
           [start_coord |-> 4000, end_coord |-> 7000],
           [start_coord |-> 7200, end_coord |-> 7500]>>
    ELSE <<[start_coord |-> RefLen - 8000, end_coord |-> RefLen - 500]>>

StartCoords(loci) == [i \in DOMAIN loci |-> loci[i].start_coord]
EndCoords(loci) == [i \in DOMAIN loci |-> loci[i].end_coord]

\* first_coords from the first and the last locus listed
first_coords_as_listed(loci_list, fl, seq_len) ==
    LET s == loci_list[1].start_coord - fl[1]
        e == loci_list[Len(loci_list)].end_coord + fl[2]
    IN  [start |-> IF s < 1 THEN 1 ELSE s,
         end |-> IF e > seq_len THEN seq_len ELSE e]

\* global_start_coord and global_end_coord the first time through: the
\* loci plus the flanks fl (upstream, downstream), kept within the sequence
first_coords(loci_list, fl, seq_len) ==
    LET s == SeqMin(StartCoords(loci_list)) - fl[1]
        e == SeqMax(EndCoords(loci_list)) + fl[2]
    IN  [start |-> IF s < 1 THEN 1 ELSE s,
         end |-> IF e > seq_len THEN seq_len ELSE e]

\* NextCoords taking the coordinates from the loci in every iteration
NextCoords_from_loci(cluster, seq_len) ==
    first_coords(cluster.loci_list, args.flank, seq_len)

\* the coordinates prepare_next_mapping uses: those of the loci plus flank
\* the first time, the ones make_faux_genome assigned afterwards
NextCoords(cluster, seq_len) ==
    IF cluster.global_start_coord = None \/ cluster.global_end_coord = None
    THEN first_coords(cluster.loci_list, args.flank, seq_len)
    ELSE [start |-> cluster.global_start_coord, end |-> cluster.global_end_coord]

\* the extraction reading the coordinates as 1-based and inclusive
prepare_next_mapping_one_based(cluster, iteration, genomes) ==
    LET seq == genomes[cluster.seq_record]
        co  == NextCoords(cluster, SegsLen(seq))
        mapping0 == [iteration |-> iteration,
                     ref_fasta |-> Slice(seq, co.start - 1, co.end),
                     mapped_bam |-> {},
                     contig_len |-> 0]
    IN  [cluster EXCEPT !.global_start_coord = co.start,
                        !.global_end_coord = co.end,
                        !.mappings = Append(@, mapping0)]

\* a LociMapping numbered after the cluster's previous one
prepare_next_mapping_stale_iteration(cluster, iteration, genomes) ==
    LET seq == genomes[cluster.seq_record]
        co  == NextCoords(cluster, SegsLen(seq))
        mapping0 == [iteration |-> IF cluster.mappings = <<>> THEN iteration
                                   ELSE LastMapping(cluster).iteration,
                     ref_fasta |-> Slice(seq, co.start, co.end),
                     mapped_bam |-> {},
                     contig_len |-> 0]
    IN  [cluster EXCEPT !.global_start_coord = co.start,
                        !.global_end_coord = co.end,
                        !.mappings = Append(@, mapping0)]

\* prepare_next_mapping: the cluster with its coordinates set and a new
\* LociMapping appended, whose ref_fasta is the extracted seed sequence
prepare_next_mapping(cluster, iteration, genomes) ==
    LET seq == genomes[cluster.seq_record]
        co  == NextCoords(cluster, SegsLen(seq))
        mapping0 == [iteration |-> iteration,
                     ref_fasta |-> Slice(seq, co.start, co.end),
                     mapped_bam |-> {},
                     contig_len |-> 0]
    IN  [cluster EXCEPT !.global_start_coord = co.start,
                        !.global_end_coord = co.end,
                        !.mappings = Append(@, mapping0)]

\* LociMapping of seedGenome.iter_mapping_list before anything is mapped.
\* mapped_bam and unmapped_sam are what the files were written with; purged
\* is set once the files of the mapping (pe_map_bam, s_map_bam, mapped_sam,
\* mapped_bam, unmapped_sam, unmapped_bam, sorted_mapped_bam) are unlinked
EmptyIterMapping ==
    [ref_fasta |-> None, inputs |-> {}, mapped_bam |-> {},
     mapped_ids_txt |-> <<>>, unmapped_sam |-> {}, purged |-> FALSE]

\* target_iters of a purge that takes the files of the previous iteration
target_iters_previous(iteration, all_iters) ==
    IF all_iters THEN 0..args.iterations ELSE {iteration - 1}

\* target_iters of SeedGenome.purge_old_files
target_iters(iteration, all_iters) ==
    IF all_iters THEN 0..args.iterations ELSE {iteration - 2}

\* SeedGenome.purge_old_files: iter_mapping_list with the files of the
\* target iterations unlinked
SeedGenome_purge_old_files(maplist, iteration, all_iters) ==
    [i \in DOMAIN maplist |->
        IF i \in target_iters(iteration, all_iters)
        THEN [maplist[i] EXCEPT !.purged = TRUE]
        ELSE maplist[i]]

\* AppendRegions appending the identifiers of the first region only
AppendRegions_first_only(ids, regions, local) ==
    IF regions = <<>> THEN ids
    ELSE ids \o CutF1(RecordsInOrder(local[Head(regions)]))

\* make_unmapped_partition_cmds, the identifier list: the previous
\* iteration's list (cat prev > cur) followed by the identifiers of the
\* records of every region (view region | cut -f1 >> cur)
RECURSIVE AppendRegions(_, _, _)
AppendRegions(ids, regions, local) ==
    IF regions = <<>> THEN ids
    ELSE AppendRegions(ids \o CutF1(RecordsInOrder(local[Head(regions)])),
                       Tail(regions), local)

\* mapped_ids_txt_of without the copy of the previous iteration's list
mapped_ids_txt_unseeded(iteration, maplist, regions, local) ==
    AppendRegions(<<>>, regions, local)

mapped_ids_txt_of(iteration, maplist, regions, local) ==
    AppendRegions(IF iteration # 0 THEN maplist[iteration - 1].mapped_ids_txt
                  ELSE <<>>,
                  regions, local)

\* make_unmapped_partition_cmds, the complement: grep -w -v -F -f ids keeps
\* the records of the whole-library alignment whose line holds no listed
\* identifier
get_unmapped(mapped_sam, ids) == {r \in mapped_sam : r.id \notin Range(ids)}

\* the clusters in the order of seedGenome.loci_clusters
RECURSIVE InOrder(_)
InOrder(S) ==
    IF S = {} THEN <<>>
    ELSE LET c == CHOOSE x \in S : \A y \in S : x <= y
         IN  <<c>> \o InOrder(S \ {c})

\* the selection taking every cluster, whatever its flags
clusters_to_process_whatever_flags(clus) == DOMAIN clus

\* [x for x in seedGenome.loci_clusters if x.continue_iterating and x.keep_contigs]
clusters_to_process(clus) ==
    {c \in DOMAIN clus : clus[c].continue_iterating /\ clus[c].keep_contigs}

-----------------------------------------------------------------------------
(* The run *)

\* thresholds of a run that sets none: no --target_len, no --include_shorts
DefaultThresholds ==
    [proceed_to_target |-> FALSE, target10 |-> 0,
     include_short_contigs |-> FALSE,
     min_assembly_len |-> min_assembly_len_default,
     min_delta |-> min_delta_default]

Iterations == 0..MaxIterations
GenomeIds == 0..(MaxIterations + 1)

\* the library object the name unmapped_ngsLib is bound to
CurLib == IF unmapped_ngsLib.obj = "master" THEN master_ngs_ob
          ELSE unmapped_ngsLib.lib

\* contig lengths the assembler may leave in contigs.fasta for a seed of
\* length seed_len (0: no contigs.fasta, or an empty one)
ContigChoices(seed_len) ==
    {0, seed_len + GrowStep, seed_len + SmallStep,
     DANGEROUS_CONTIG_LENGTH_THRESHOLD_FACTOR * seed_len + 1}

\* SeedGenome.make_map_paths_and_dir: one LociMapping for each of the
\* iterations 0..max_iterations
make_map_paths_and_dir(max_iterations) ==
    [i \in 0..max_iterations |-> EmptyIterMapping]

InitRun(argset) ==
    /\ args \in argset
    /\ pc = "loop"
    /\ this_iteration = 0
    /\ next_reference_path = 0
    /\ genome_files = [g \in GenomeIds |-> IF g = 0 THEN <<RefSeg>> ELSE <<>>]
    /\ clusters = [c \in Clusters |-> NewCluster(c, LociOf(c))]
    /\ master_ngs_ob = MasterLib(args.fastqS)
    /\ unmapped_ngsLib = [obj |-> "unbound", lib |-> MasterLib(args.fastqS)]
    /\ read_files = {MasterFile("readF"), MasterFile("readR")}
                    \cup (IF args.fastqS THEN {MasterFile("readS")} ELSE {})
    /\ iter_mapping_list = make_map_paths_and_dir(args.iterations)
    /\ pending = {}
    /\ results = [c \in Clusters |-> None]
    /\ passes = 0
    /\ final_long_reads_dir = {}

\* the command lines explored, no read of the library being followed
AllArgs ==
    [iterations : Iterations, keep_temps : BOOLEAN, ignoreS : BOOLEAN,
     fastqS : BOOLEAN, serialize : BOOLEAN, faults : BOOLEAN,
     flank : {flank}, th : {DefaultThresholds}, followed : {{}}]

\* the run in which the reads are followed: paired and singleton reads
\* given and used, the largest number of iterations, the units run in the
\* pool and all their commands succeed
ReadsArgs ==
    [iterations |-> MaxIterations, keep_temps |-> FALSE, ignoreS |-> FALSE,
     fastqS |-> TRUE, serialize |-> FALSE, faults |-> FALSE,
     flank |-> flank, th |-> DefaultThresholds, followed |-> AllRecords]

\* no call of the evaluator outside the run
NoCall == [called |-> FALSE]

Init == InitRun(AllArgs \cup {ReadsArgs}) /\ ev = NoCall

\* while seedGenome.this_iteration <= args.iterations: the test fails
LoopExit ==
    /\ pc = "loop"
    /\ ~(this_iteration <= args.iterations)
    /\ pc' = "cleanup"
    /\ UNCHANGED <<args, this_iteration, next_reference_path, genome_files,
                   clusters, master_ngs_ob, unmapped_ngsLib, read_files,
                   iter_mapping_list, pending, results, passes, ev,
                   final_long_reads_dir>>

\* a purge in every iteration but the first
purge_due_from_first(iteration) ==
    iteration # 0 /\ ~args.keep_temps

\* if this_iteration != 0: if this_iteration != 1: if not args.keep_temps
purge_due(iteration) ==
    iteration # 0 /\ iteration # 1 /\ ~args.keep_temps

\* the head of a pass: the active set, the purge of old files and the
\* library of this iteration
LoopTop ==
    /\ pc = "loop"
    /\ this_iteration <= args.iterations
    /\ passes' = passes + 1
    /\ LET active == clusters_to_process(clusters)
           purge  == purge_due(this_iteration)
           newlib == convert_bam_to_fastqs_cmd(this_iteration, next_reference_path)
           kept   == IF purge
                     THEN SeedGenome_purge_old_files(iter_mapping_list, this_iteration, FALSE)
                     ELSE iter_mapping_list
       IN  IF active = {}
           THEN /\ pc' = "exit1"
                /\ UNCHANGED <<clusters, master_ngs_ob, unmapped_ngsLib, read_files,
                               iter_mapping_list>>
           ELSE IF this_iteration # 0
           THEN \* samtools fastq of the unmapped alignment of the previous
                \* iteration: subprocess.run(check=True) raises when the
                \* file is gone; the assertion of purge_old_files on its target
                /\ pc' = IF purge /\ ~(this_iteration - 2 >= 0) THEN "exit1"
                         ELSE IF kept[this_iteration - 1].purged THEN "exit1"
                         ELSE "map"
                /\ iter_mapping_list' = kept
                /\ clusters' = [c \in DOMAIN clusters |->
                                  IF c \in active
                                  THEN [clusters[c] EXCEPT !.seq_record = next_reference_path]
                                  ELSE clusters[c]]
                /\ read_files' =
                      (IF purge THEN NgsLib_purge_old_files(CurLib, read_files)
                       ELSE read_files) \cup {newlib.readS0}
                /\ unmapped_ngsLib' = [obj |-> "own", lib |-> newlib]
                /\ master_ngs_ob' = [master_ngs_ob EXCEPT !.ref_fasta = next_reference_path]
           ELSE /\ pc' = "map"
                /\ unmapped_ngsLib' = [unmapped_ngsLib EXCEPT !.obj = "master"]
                /\ UNCHANGED <<clusters, master_ngs_ob, read_files,
                               iter_mapping_list>>
    /\ UNCHANGED <<args, this_iteration, next_reference_path, genome_files,
                   pending, results, ev,
                   final_long_reads_dir>>

\* map_to_genome_ref_bwa / map_to_genome_ref_smalt, every command succeeding
Map ==
    /\ pc = "map"
    /\ LET r == map_to_genome_ref(CurLib, read_files, this_iteration # 0, args.ignoreS)
           done == [r.lib EXCEPT !.mapping_success = TRUE]
       IN  /\ IF unmapped_ngsLib.obj = "master"
              THEN master_ngs_ob' = done /\ UNCHANGED unmapped_ngsLib
              ELSE unmapped_ngsLib' = [unmapped_ngsLib EXCEPT !.lib = done]
                   /\ UNCHANGED master_ngs_ob
           /\ iter_mapping_list' =
                 [iter_mapping_list EXCEPT ![this_iteration] =
                     [@ EXCEPT !.ref_fasta = r.lib.ref_fasta,
                               !.inputs = r.inputs,
                               !.mapped_bam = UNION {FileRecords(f, iter_mapping_list) : f \in r.inputs}]]
    /\ pc' = "partition"
    /\ UNCHANGED <<args, this_iteration, next_reference_path, genome_files,
                   clusters, read_files, pending, results, passes, ev,
                   final_long_reads_dir>>

\* a command of the mapping chain fails: subprocess.run(check=True) raises
\* and nothing catches it
MapFails ==
    /\ pc = "map"
    /\ LET r == map_to_genome_ref(CurLib, read_files, this_iteration # 0, args.ignoreS)
       IN  IF unmapped_ngsLib.obj = "master"
           THEN master_ngs_ob' = r.lib /\ UNCHANGED unmapped_ngsLib
           ELSE unmapped_ngsLib' = [unmapped_ngsLib EXCEPT !.lib = r.lib]
                /\ UNCHANGED master_ngs_ob
    /\ pc' = "exit1"
    /\ UNCHANGED <<args, this_iteration, next_reference_path, genome_files,
                   clusters, read_files, iter_mapping_list, pending, results, passes, ev,
                   final_long_reads_dir>>

\* the region-local subset of every cluster: samtools view of the sorted
\* whole-library alignment over the cluster's range.  hit[r] is the cluster
\* whose range the aligner placed record r in (0: none)
RegionLocal(mapped_bam, hit) ==
    [c \in Clusters |-> {r \in mapped_bam : hit[r] = c}]

\* partition_mapping, every command succeeding
Partition ==
    /\ pc = "partition"
    /\ LET active == clusters_to_process(clusters)
           whole  == iter_mapping_list[this_iteration].mapped_bam
       IN  \E hit \in [whole -> active \cup {0}] :
             LET local == RegionLocal(whole, hit)
                 ids   == mapped_ids_txt_of(this_iteration, iter_mapping_list,
                                            InOrder(active), local)
                 prep(c) == prepare_next_mapping(clusters[c], this_iteration, genome_files)
             IN  /\ clusters' =
                       [c \in DOMAIN clusters |->
                          IF c \in active
                          THEN [prep(c) EXCEPT
                                   !.mappings[Len(prep(c).mappings)].mapped_bam = local[c]]
                          ELSE clusters[c]]
                 /\ iter_mapping_list' =
                       [iter_mapping_list EXCEPT ![this_iteration] =
                           [@ EXCEPT !.mapped_ids_txt = ids,
                                     !.unmapped_sam = get_unmapped(whole, ids)]]
                 /\ pending' = active
                 /\ results' = IF args.serialize THEN results
                               ELSE [c \in Clusters |-> None]
    /\ pc' = "units"
    /\ UNCHANGED <<args, this_iteration, next_reference_path, genome_files,
                   master_ngs_ob, unmapped_ngsLib, read_files, passes, ev,
                   final_long_reads_dir>>

\* a partition command fails: the except clause logs and calls sys.exit(1)
PartitionFails ==
    /\ pc = "partition"
    /\ pc' = "exit1"
    /\ UNCHANGED <<args, this_iteration, next_reference_path, genome_files,
                   clusters, master_ngs_ob, unmapped_ngsLib, read_files,
                   iter_mapping_list, pending, results, passes, ev,
                   final_long_reads_dir>>

\* the unit that can run next: any dispatched one in the pool, the first
\* one left of the flat command list with --serialize
CanRun(c) ==
    /\ c \in pending
    /\ args.serialize => \A x \in pending : c <= x

\* generate_spades_cmd with check_libs=False: the command as it is
make_spades_empty_check_unchecked(liblist, cmd) == cmd

\* make_spades_empty_check: "if [ -s lib ] && ... ; then cmd ; else echo
\* 'input lib not found, skipping this SPAdes call' ; fi".  A library is the
\* set of records in its file; the file of a run whose reads are not
\* followed may hold records or not
make_spades_empty_check(liblist, cmd) ==
    IF \A lib \in liblist : args.followed = {} \/ lib # {}
    THEN cmd
    ELSE "echo"

\* generate_spades_cmd as main calls it: single_lib=True, check_libs=True,
\* the one library being readS0 of the library convert_bam_to_fastqs_cmd
\* returns for the mapping, which holds every record of mapped_bam
generate_spades_cmd(mapping_ob) ==
    make_spades_empty_check({mapping_ob.mapped_bam}, "spades")

\* the extract/convert/assemble unit of cluster c ends, both commands having
\* returned 0; the assembler is not run when no read file was mapped in this
\* iteration or when the fastq of the cluster is empty
UnitDone(c) ==
    /\ pc = "units"
    /\ CanRun(c)
    /\ \E n \in ContigChoices(SegsLen(LastMapping(clusters[c]).ref_fasta)) :
         /\ iter_mapping_list[this_iteration].inputs = {} => n = 0
         /\ generate_spades_cmd(LastMapping(clusters[c])) = "echo" => n = 0
         /\ clusters' = [clusters EXCEPT ![c].mappings[Len(clusters[c].mappings)].contig_len = n]
    /\ pending' = pending \ {c}
    /\ results' = IF args.serialize THEN results ELSE [results EXCEPT ![c] = 0]
    /\ UNCHANGED <<args, pc, this_iteration, next_reference_path, genome_files,
                   master_ngs_ob, unmapped_ngsLib, read_files,
                   iter_mapping_list, passes, ev,
                   final_long_reads_dir>>

\* a command of the unit of cluster c exits non-zero.  In the pool
\* subprocess_run_list returns 1: the conversion failed and the assembler was
\* not started (n = 0), or the assembler failed, having written a
\* contigs.fasta or not.  With --serialize subprocess.run(check=True) raises
\* on the failing command, which left the same files behind, and nothing
\* catches it
UnitFails(c) ==
    /\ pc = "units"
    /\ args.faults
    /\ CanRun(c)
    /\ IF args.serialize
       THEN /\ \E n \in ContigChoices(SegsLen(LastMapping(clusters[c]).ref_fasta)) :
                 /\ iter_mapping_list[this_iteration].inputs = {} => n = 0
                 /\ clusters' = [clusters EXCEPT ![c].mappings[Len(clusters[c].mappings)].contig_len = n]
            /\ pc' = "exit1"
            /\ UNCHANGED <<pending, results>>
       ELSE /\ \E n \in ContigChoices(SegsLen(LastMapping(clusters[c]).ref_fasta)) :
                 /\ iter_mapping_list[this_iteration].inputs = {} => n = 0
                 /\ clusters' = [clusters EXCEPT ![c].mappings[Len(clusters[c].mappings)].contig_len = n]
            /\ pending' = pending \ {c}
            /\ results' = [results EXCEPT ![c] = 1]
            /\ pc' = pc
    /\ UNCHANGED <<args, this_iteration, next_reference_path, genome_files,
                   master_ngs_ob, unmapped_ngsLib, read_files,
                   iter_mapping_list, passes, ev,
                   final_long_reads_dir>>

\* the code evaluate_spades_success gives cluster c
CodeOf(cluster) ==
    evaluate_spades_success(LastMapping(cluster).contig_len,
                            SegsLen(LastMapping(cluster).ref_fasta),
                            LastMapping(cluster).iteration, args.th)

\* the evaluation started without waiting for the units
pool_join_skipped == TRUE

\* pool.join(), or the end of the flat command list: no unit is left
pool_join == pending = {}

\* for cluster in clusters_to_process: evaluate_spades_success and
\* parse_subassembly_return_code, after the units
Evaluate ==
    /\ pc = "units"
    /\ pool_join
    /\ LET active == clusters_to_process(clusters)
           exits  == {c \in active : CodeOf(clusters[c]) = SysExit}
           \* the clusters evaluated before the evaluator leaves through sys.exit
           done   == {c \in active : \A x \in exits : c < x}
       IN  /\ clusters' =
                 [c \in DOMAIN clusters |->
                    IF c \in done
                    THEN parse_subassembly_return_code(
                             [clusters[c] EXCEPT !.assembly_success = CodeOf(clusters[c])])
                    ELSE clusters[c]]
           /\ pc' = IF exits = {} THEN "advance" ELSE "exit1"
    /\ UNCHANGED <<args, this_iteration, next_reference_path, genome_files,
                   master_ngs_ob, unmapped_ngsLib, read_files,
                   iter_mapping_list, pending, results, passes, ev,
                   final_long_reads_dir>>

\* the end of a pass: the active set again, the faux genome, this_iteration
Advance ==
    /\ pc = "advance"
    /\ LET active == clusters_to_process(clusters)
           r == make_faux_genome(InOrder(active), clusters)
       IN  IF active # {}
           THEN /\ clusters' = r.clusters
                /\ genome_files' = [genome_files EXCEPT ![this_iteration + 1] = r.record]
                /\ next_reference_path' = this_iteration + 1
                /\ this_iteration' = this_iteration + 1
           ELSE /\ next_reference_path' = None
                /\ this_iteration' = (args.iterations + 1) + 1
                /\ UNCHANGED <<clusters, genome_files>>
    /\ pc' = "loop"
    /\ UNCHANGED <<args, master_ngs_ob, unmapped_ngsLib, read_files,
                   iter_mapping_list, pending, results, passes, ev,
                   final_long_reads_dir>>

\* after the loop: if not args.keep_temps, unmapped_ngsLib.purge_old_files()
\* and seedGenome.purge_old_files(all_iters=True)
Cleanup ==
    /\ pc = "cleanup"
    /\ read_files' = IF ~args.keep_temps
                     THEN NgsLib_purge_old_files(CurLib, read_files)
                     ELSE read_files
    /\ iter_mapping_list' =
          IF ~args.keep_temps
          THEN SeedGenome_purge_old_files(iter_mapping_list, this_iteration, TRUE)
          ELSE iter_mapping_list
    /\ pc' = "collect"
    /\ UNCHANGED <<args, this_iteration, next_reference_path, genome_files,
                   clusters, master_ngs_ob, unmapped_ngsLib,
                   pending, results, passes, ev,
                   final_long_reads_dir>>

\* the name parse_subassembly_return_code hands copy_file for a code-1
\* contig: os.path.join("contigs.fasta", "cluster_<index>_final_iter_<iteration>.fasta"),
\* a path into a subdirectory of final_long_reads_dir
final_iter_name(cluster) ==
    [subdir |-> "contigs.fasta", sequence_id |-> "",
     index |-> cluster.index, iteration |-> LastMapping(cluster).iteration]

\* the name of the copy made after the loop:
\* sequence_id + "_cluster_" + index + ".fasta"
cluster_name(cluster) ==
    [subdir |-> "", sequence_id |-> cluster.sequence_id,
     index |-> cluster.index, iteration |-> None]

\* the copy of the last contig of a cluster under a name
copy_file(cluster, name) ==
    [name |-> name, clu |-> cluster.index,
     contig_len |-> LastMapping(cluster).contig_len]

\* combine_contigs(contigs_dir): the contigs of the fasta files of the
\* directory itself
combine_contigs(contigs_dir) == {f \in contigs_dir : f.name.subdir = ""}

\* seedGenome.assembled_seeds once the run is done
assembled_seeds == combine_contigs(final_long_reads_dir)

\* after the loop the contigs of the clusters with keep_contigs are copied
\* into final_long_reads_dir and the directory is combined.  The copies tried
\* during the loop for the clusters given code 1 (copy_file in a try with a
\* bare except) are under the subdirectory their name gives, each of them
\* made or not
Collect ==
    /\ pc = "collect"
    /\ pc' = "done"
    /\ LET kept  == {c \in Clusters : clusters[c].keep_contigs}
           tried == {c \in Clusters : clusters[c].assembly_success = 1}
       IN  \E made \in SUBSET tried :
             final_long_reads_dir' =
                 {copy_file(clusters[c], final_iter_name(clusters[c])) : c \in made}
                 \cup {copy_file(clusters[c], cluster_name(clusters[c])) : c \in kept}
    /\ UNCHANGED <<args, this_iteration, next_reference_path, genome_files,
                   clusters, master_ngs_ob, unmapped_ngsLib, read_files,
                   iter_mapping_list, pending, results, passes, ev>>

Next ==
    \/ LoopExit
    \/ LoopTop
    \/ Map
    \/ MapFails
    \/ Partition
    \/ PartitionFails
    \/ \E c \in Clusters : UnitDone(c)
    \/ \E c \in Clusters : UnitFails(c)
    \/ Evaluate
    \/ Advance
    \/ Cleanup
    \/ Collect

Spec == Init /\ [][Next]_vars

-----------------------------------------------------------------------------
(* evaluate_spades_success on its own: the inputs a run can hand it *)

\* seed lengths of the calls explored
SeedLens == {1000, 4500, 7000}

\* --target_len values explored, in tenths (None: the option is not given)
Target10Choices ==
    {None, 0, 5, 10, 11, 49, 50, 51, 499, 500, 501, 50000, 70500}

\* the --target_len check of __main__: exit is TRUE when it calls sys.exit(1),
\* else proceed_to_target is set
target_len_check(target10) ==
    IF target10 # None
    THEN (IF ~(target10 > 0)
          THEN [exit |-> TRUE, proceed_to_target |-> FALSE]
          ELSE IF target10 > 50 /\ 500 > target10
          THEN [exit |-> TRUE, proceed_to_target |-> FALSE]
          ELSE [exit |-> FALSE, proceed_to_target |-> TRUE])
    ELSE [exit |-> FALSE, proceed_to_target |-> FALSE]

\* --min_assembly_len values explored: the default and a smaller one
MinAssemblyLenChoices == {min_assembly_len_default, 4000}

\* min_delta values explored: the default of the parameter, which is what
\* __main__ leaves it at, and a larger one
MinDeltaChoices == {min_delta_default, 200}

\* the thresholds evaluate_spades_success is called with
ThresholdsOf(target10, include_shorts, min_assembly_len, min_delta) ==
    [proceed_to_target |-> target_len_check(target10).proceed_to_target,
     target10 |-> target10,
     include_short_contigs |-> include_shorts,
     min_assembly_len |-> min_assembly_len,
     min_delta |-> min_delta]

\* lengths of the first contig explored by the calls: those of the loop, a
\* contig SmallStep shorter than the seed, and two fixed lengths
EvalContigChoices(seed_len) ==
    ContigChoices(seed_len) \cup {seed_len - SmallStep, 5000, 5990}

DefaultArgs ==
    [iterations |-> 0, keep_temps |-> FALSE, ignoreS |-> FALSE,
     fastqS |-> FALSE, serialize |-> FALSE, faults |-> FALSE,
     flank |-> flank, th |-> DefaultThresholds, followed |-> {}]

InitEval == InitRun({DefaultArgs}) /\ ev = NoCall

\* contigs.fasta as the lengths of its records: none when the assembler left
\* no output, else the first contig alone or followed by a second one that
\* is extra longer
ContigsFile(contig_len, extra) ==
    IF contig_len = 0 THEN <<>>
    ELSE IF extra = 0 THEN <<contig_len>>
    ELSE <<contig_len, contig_len + extra>>

\* keep_only_first_contig: the file rewritten with its first record only
keep_only_first_contig(contigs) == <<Head(contigs)>>

\* evaluate_mapping with a counter of the mapping advanced by the call
evaluate_mapping_counting(m, th) ==
    LET kept == IF m.contigs = <<>> THEN m.contigs
                ELSE keep_only_first_contig(m.contigs)
        contig_len == IF kept = <<>> THEN 0 ELSE kept[1]
    IN  [code |-> evaluate_spades_success(contig_len, m.seed_len, m.iteration, th),
         mapping |-> [m EXCEPT !.contigs = kept, !.iteration = @ + 1]]

\* evaluate_spades_success on a mapping m (contigs: its contigs.fasta,
\* seed_len: the length of its ref_fasta, iteration): the code, and the
\* mapping as the call leaves it
evaluate_mapping(m, th) ==
    LET kept == IF m.contigs = <<>> THEN m.contigs
                ELSE keep_only_first_contig(m.contigs)
        contig_len == IF kept = <<>> THEN 0 ELSE kept[1]
    IN  [code |-> evaluate_spades_success(contig_len, m.seed_len, m.iteration, th),
         mapping |-> [m EXCEPT !.contigs = kept]]

\* cluster.assembly_success = code; parse_subassembly_return_code(cluster),
\* on the flags of a cluster
ApplyCode(flags, code) ==
    parse_subassembly_return_code([flags EXCEPT !.assembly_success = code])

\* the flags of a cluster that is in clusters_to_process
ActiveFlags ==
    [assembly_success |-> None, continue_iterating |-> TRUE, keep_contigs |-> TRUE]

\* one call of evaluate_spades_success in a run whose --target_len passed
\* the check of __main__, followed by parse_subassembly_return_code; each
\* behaviour explores one call on a fresh cluster
EvalCall ==
    /\ ~ev.called
    /\ \E seed_len \in SeedLens, iteration \in Iterations,
          target10 \in Target10Choices, include_shorts \in BOOLEAN,
          extra \in {0, GrowStep},
          min_assembly_len \in MinAssemblyLenChoices,
          min_delta \in MinDeltaChoices :
         \E contig_len \in EvalContigChoices(seed_len) :
           LET th == ThresholdsOf(target10, include_shorts, min_assembly_len, min_delta)
               m  == [contigs |-> ContigsFile(contig_len, extra),
                      seed_len |-> seed_len, iteration |-> iteration]
               r  == evaluate_mapping(m, th)
           IN  /\ ~target_len_check(target10).exit
               /\ ev' = [called |-> TRUE,
                         contig_len |-> contig_len,
                         seed_len |-> seed_len,
                         iteration |-> iteration,
                         th |-> th,
                         code |-> r.code,
                         contigs |-> m.contigs,
                         mapping |-> r.mapping,
                         cluster |-> IF r.code = SysExit THEN ActiveFlags
                                     ELSE ApplyCode(ActiveFlags, r.code),
                         second |-> NoCall]
    /\ UNCHANGED loopvars

\* the evaluator and parse_subassembly_return_code called once more on the
\* mapping and the cluster as the first call left them
EvalAgain ==
    /\ ev.called
    /\ ev.code # SysExit
    /\ ~ev.second.called
    /\ LET r == evaluate_mapping(ev.mapping, ev.th)
       IN  ev' = [ev EXCEPT !.second =
                     [called |-> TRUE,
                      code |-> r.code,
                      mapping |-> r.mapping,
                      cluster |-> IF r.code = SysExit THEN ev.cluster
                                  ELSE ApplyCode(ev.cluster, r.code)]]
    /\ UNCHANGED loopvars

NextEval == EvalCall \/ EvalAgain

SpecEval == InitEval /\ [][NextEval]_vars

-----------------------------------------------------------------------------
(* The clusters as they are built, and the first selection of the loop *)

\* LociCluster.__init__ as parse_clustered_loci_file calls it: the attributes
\* the object has, with the defaults of the arguments that are not passed
LociCluster(index, loci_list) ==
    [index |-> index,
     sequence_id |-> "ref",
     loci_list |-> loci_list,
     global_start_coord |-> None,
     global_end_coord |-> None,
     seq_record |-> None,
     mappings |-> <<>>,
     keep_contig |-> TRUE,
     continue_iterating |-> TRUE]

\* parse_clustered_loci_file: one LociCluster for each line of the cluster
\* file, nloci[i] locus tags on line i
parse_clustered_loci_file(nloci) ==
    [i \in DOMAIN nloci |-> LociCluster(i, [j \in 1..nloci[i] |-> [index |-> j - 1]])]

\* the cluster files: up to MaxClusters lines of up to MaxLoci locus tags
ClusterFiles == UNION {[1..n -> 1..MaxLoci] : n \in 1..MaxClusters}

\* an attribute read of a Python object
HasAttr(ob, name) == name \in DOMAIN ob

\* x.continue_iterating and x.keep_contigs raises AttributeError for some x
SelectionRaises(clus) ==
    \E i \in DOMAIN clus :
        \/ ~HasAttr(clus[i], "continue_iterating")
        \/ clus[i].continue_iterating /\ ~HasAttr(clus[i], "keep_contigs")

\* [x for x in seedGenome.loci_clusters if x.continue_iterating and
\* x.keep_contigs], when no attribute read raises
Selected(clus) ==
    {i \in DOMAIN clus : clus[i].continue_iterating /\ clus[i]["keep_contigs"]}

InitCatalog ==
    /\ args = DefaultArgs
    /\ pc = "loop"
    /\ this_iteration = 0
    /\ next_reference_path = 0
    /\ genome_files = [g \in GenomeIds |-> IF g = 0 THEN <<RefSeg>> ELSE <<>>]
    /\ \E nloci \in ClusterFiles : clusters = parse_clustered_loci_file(nloci)
    /\ master_ngs_ob = MasterLib(args.fastqS)
    /\ unmapped_ngsLib = [obj |-> "unbound", lib |-> MasterLib(args.fastqS)]
    /\ read_files = {MasterFile("readF"), MasterFile("readR")}
    /\ iter_mapping_list = make_map_paths_and_dir(args.iterations)
    /\ pending = {}
    /\ results = [c \in Clusters |-> None]
    /\ passes = 0
    /\ final_long_reads_dir = {}
    /\ ev = NoCall

\* the first pass of the loop up to the selection of clusters_to_process; an
\* AttributeError is caught nowhere
SelectActive ==
    /\ pc = "loop"
    /\ this_iteration <= args.iterations
    /\ passes' = passes + 1
    /\ pc' = IF SelectionRaises(clusters) THEN "AttributeError"
             ELSE IF Selected(clusters) = {} THEN "exit1"
             ELSE "map"
    /\ UNCHANGED <<args, this_iteration, next_reference_path, genome_files,
                   clusters, master_ngs_ob, unmapped_ngsLib, read_files,
                   iter_mapping_list, pending, results, ev,
                   final_long_reads_dir>>

NextCatalog == SelectActive

SpecCatalog == InitCatalog /\ [][NextCatalog]_vars

-----------------------------------------------------------------------------
(* The first pass up to the extraction of the seeds, on drawn clusters *)

\* loci of a cluster file: three in the body of the sequence, one near its
\* start and one near its end
LocusChoices ==
    {[start_coord |-> 1000, end_coord |-> 1800],
     [start_coord |-> 2000, end_coord |-> 2900],
     [start_coord |-> 3100, end_coord |-> 4000],
     [start_coord |-> 200, end_coord |-> 900],
     [start_coord |-> 9000, end_coord |-> 9800]}

\* the loci of a cluster in any order: up to MaxLoci - 1 different loci
LociLists ==
    {l \in UNION {[1..n -> LocusChoices] : n \in 1..(MaxLoci - 1)} :
        \A i, j \in DOMAIN l : i # j => l[i] # l[j]}

\* --flanking_length 500:500, the default 1000 and 0:300
FlankChoices == {<<500, 500>>, flank, <<0, 300>>}

\* lengths of the reference sequence
SeqLenChoices == {10000, 9900}

InitPrepare ==
    /\ \E fl \in FlankChoices : args = [DefaultArgs EXCEPT !.flank = fl]
    /\ pc = "loop"
    /\ this_iteration = 0
    /\ next_reference_path = 0
    /\ \E n \in SeqLenChoices :
          genome_files = [g \in GenomeIds |->
                            IF g = 0 THEN <<[RefSeg EXCEPT !.len = n]>> ELSE <<>>]
    /\ \E l \in LociLists :
          clusters = [c \in Clusters |->
                        NewCluster(c, IF c = 1 THEN l
                                      ELSE <<[start_coord |-> 5000, end_coord |-> 6000]>>)]
    /\ master_ngs_ob = MasterLib(args.fastqS)
    /\ unmapped_ngsLib = [obj |-> "unbound", lib |-> MasterLib(args.fastqS)]
    /\ read_files = {MasterFile("readF"), MasterFile("readR")}
    /\ iter_mapping_list = make_map_paths_and_dir(args.iterations)
    /\ pending = {}
    /\ results = [c \in Clusters |-> None]
    /\ passes = 0
    /\ final_long_reads_dir = {}
    /\ ev = NoCall

NextPrepare == LoopTop \/ Map \/ Partition

SpecPrepare == InitPrepare /\ [][NextPrepare]_vars

-----------------------------------------------------------------------------
(* Properties *)

\* every cluster's last evaluation excluded it (code 2 or 3)
AllExcluded == \A c \in Clusters : clusters[c].assembly_success \in {2, 3}

\* C1: for an iteration cap K (--iterations), the loop reaches DONE after at
\* most K passes of map/partition/assemble/evaluate
C1_DoneWithinKPasses == pc = "done" => passes <= args.iterations

\* the run ended after a pass for each of this_iteration = 0 .. K
C1_Witness == pc = "done" /\ passes = args.iterations + 1

\* what the loop does: at most K + 1 passes are started
C1_AtMostKPlusOnePasses == passes <= args.iterations + 1

\* C2: once every region is excluded (codes 2 or 3), the run ends with the
\* fatal error; it does not go on to the post-loop cleanup and the collection
\* of the final output
C2_AllExcludedIsFatal ==
    AllExcluded => pc \notin {"cleanup", "collect", "done"}

\* every region excluded in the first pass, and the run ends as a finished one
C2_Witness == pc = "done" /\ AllExcluded /\ passes = 1

\* C3: after a region is evaluated and its code applied, its flags are those
\* of the decision table: 0 -> keep, continue; 1 -> keep, stop;
\* 2 and 3 -> drop, stop
C3_FlagsFollowDecisionTable ==
    \A c \in Clusters :
        LET clu == clusters[c]
        IN  /\ clu.assembly_success = 0 =>
                 (clu.keep_contigs /\ clu.continue_iterating)
            /\ clu.assembly_success = 1 =>
                 (clu.keep_contigs /\ ~clu.continue_iterating)
            /\ clu.assembly_success \in {2, 3} =>
                 (~clu.keep_contigs /\ ~clu.continue_iterating)

\* a region evaluated with code 1 whose contig is not kept
C3_Witness ==
    \E c \in Clusters :
        /\ clusters[c].assembly_success = 1
        /\ ~clusters[c].keep_contigs
        /\ ~clusters[c].continue_iterating

\* the fractional or absolute target length of the decision table
TargetSeedLen(th, seed_len) ==
    IF th.target10 < 50 THEN (th.target10 * seed_len) \div 10
    ELSE th.target10 \div 10

\* the code of the ordered checks (a) .. (f) for the inputs of a call
OrderedCode(e) ==
    IF e.contig_len = 0 THEN 3
    ELSE IF e.contig_len > 3 * e.seed_len THEN 2
    ELSE IF e.contig_len < e.th.min_assembly_len
    THEN (IF e.th.include_short_contigs THEN 1 ELSE 2)
    ELSE IF e.th.proceed_to_target
            /\ e.contig_len >= TargetSeedLen(e.th, e.seed_len) THEN 1
    ELSE IF e.iteration # 0
            /\ Abs(e.contig_len - e.seed_len) < e.th.min_delta THEN 1
    ELSE 0

\* C4: evaluate_spades_success returns one code in {0,1,2,3} for every input,
\* the code of the earliest of the checks (a) .. (f) that applies
C4_ReturnsOrderedCode ==
    ev.called => (ev.code \in {0, 1, 2, 3} /\ ev.code = OrderedCode(ev))

\* a call with an accepted --target_len that the evaluator leaves through
\* sys.exit(1)
C4_Witness ==
    ev.called /\ ev.code = SysExit /\ ev.contig_len > 0 /\ ev.th.target10 = 50

\* whenever the evaluator returns, it returns the code of the ordered checks
C4_OrderedWhenReturned ==
    (ev.called /\ ev.code # SysExit) => ev.code = OrderedCode(ev)

\* C11: a second evaluation of the same mapping with the same thresholds
\* gives the same code and the same flags, and the first evaluation changed
\* neither the mapping's iteration nor anything else the second one reads
C11_IdempotentEvaluation ==
    (ev.called /\ ev.second.called) =>
        /\ ev.second.code = ev.code
        /\ ev.second.cluster = ev.cluster
        /\ ev.mapping.iteration = ev.iteration
        /\ ev.second.mapping = ev.mapping

\* evaluated twice: a two-contig file in iteration 0 whose first contig is
\* within min_delta of the seed
C11_Witness ==
    /\ ev.called /\ ev.second.called
    /\ Len(ev.contigs) = 2
    /\ ev.iteration = 0
    /\ ev.code = 0
    /\ Abs(ev.contig_len - ev.seed_len) < min_delta_default

\* what the evaluation of a cluster sets
Evaluated(c) ==
    <<clusters[c].assembly_success, clusters[c].continue_iterating,
      clusters[c].keep_contigs>>

\* C12: while a unit dispatched in this iteration has not completed, no step
\* evaluates a cluster, writes a faux genome or changes this_iteration,
\* whatever the order the units complete in
C12_BarrierBeforeEvaluation ==
    [][pending # {} =>
          /\ \A c \in Clusters : Evaluated(c)' = Evaluated(c)
          /\ genome_files' = genome_files
          /\ this_iteration' = this_iteration]_vars

\* in iteration 1 the unit of cluster 2 has completed with a contig before
\* that of cluster 1: cluster 2 still has the flags and the code of
\* iteration 0 and the faux genome of iteration 1 is not written
C12_Witness ==
    /\ pc = "units"
    /\ this_iteration = 1
    /\ pending = {1}
    /\ results[2] = 0
    /\ LastMapping(clusters[2]).iteration = 1
    /\ LastMapping(clusters[2]).contig_len > 0
    /\ clusters[2].assembly_success = 0
    /\ genome_files[2] = <<>>

\* C13: after the evaluation of an iteration whose units ran in the pool,
\* every cluster whose unit had a failing command has continue_iterating
\* false and is outside the set the next faux genome is built from
C13_FailingRegionExcluded ==
    pc = "advance" =>
        \A c \in Clusters :
            results[c] = 1 =>
                /\ ~clusters[c].continue_iterating
                /\ c \notin clusters_to_process(clusters)

\* the unit of cluster 1 failed in the pool after the assembler had written
\* a contig, the unit of cluster 2 completed and cluster 2 was given code 0
\* as usual: cluster 1 was given code 0 as well
C13_Witness ==
    /\ pc = "advance"
    /\ results[1] = 1 /\ results[2] = 0
    /\ clusters[2].assembly_success = 0 /\ clusters[2].continue_iterating
    /\ clusters[1].assembly_success = 0 /\ clusters[1].continue_iterating

\* C13, the siblings: a failing unit in the pool stops neither the other
\* units nor the run, and every cluster of the iteration is evaluated on
\* the contigs.fasta its own unit left
C13_SiblingsEvaluated ==
    /\ (~args.serialize /\ pc = "exit1") => pending = {}
    /\ pc = "advance" =>
          \A c \in Clusters :
              results[c] # None =>
                  clusters[c].assembly_success = CodeOf(clusters[c])

\* C14: with --serialize as in the pool, a failing command of a unit leaves
\* the run going to the evaluation of every cluster of the iteration: the
\* run never stops while units of the iteration are outstanding
C14_SerialAsPooled == pc = "exit1" => pending = {}

\* with --serialize the unit of cluster 1 left a contig and a command of
\* the unit of cluster 2 failed: the run stopped, no cluster evaluated in
\* this iteration
C14_Witness ==
    /\ args.serialize
    /\ pc = "exit1"
    /\ pending = {2}
    /\ LastMapping(clusters[1]).contig_len > 0
    /\ clusters[1].assembly_success = None

\* C15: a step that leaves the partitioning without having partitioned (a
\* command failed) does not stop the run; it marks one cluster of the
\* active set non-continuing and leaves the flags of the others alone
C15_PartitionFailureIsLocal ==
    [][(pc = "partition" /\ pc' # "units") =>
          /\ pc' # "exit1"
          /\ \E c \in clusters_to_process(clusters) :
                /\ ~clusters'[c].continue_iterating
                /\ \A d \in Clusters \ {c} :
                      clusters'[d].continue_iterating = clusters[d].continue_iterating]_vars

\* the run stopped in the partitioning of iteration 1: the library was
\* mapped, no unit was dispatched and both clusters are still continuing
C15_Witness ==
    /\ pc = "exit1"
    /\ this_iteration = 1
    /\ iter_mapping_list[1].ref_fasta # None
    /\ pending = {}
    /\ \A c \in Clusters : /\ clusters[c].continue_iterating
                            /\ Len(clusters[c].mappings) = 1

\* C16: the mapping call leaves mapping_success true on its library only
\* when all its commands completed, the alignment then being there for the
\* partitioning; when a command failed the flag is not set and the run
\* stops: nothing is partitioned or assembled and nothing is mapped again.
\* No other step sets the flag
C16_MappingSuccessOnlyAfterChain ==
    [][/\ (pc = "map" /\ CurLib'.mapping_success) =>
             /\ pc' = "partition"
             /\ iter_mapping_list'[this_iteration].ref_fasta = CurLib'.ref_fasta
       /\ (pc = "map" /\ ~CurLib'.mapping_success) =>
             /\ pc' = "exit1"
             /\ iter_mapping_list' = iter_mapping_list
       /\ pc = "exit1" => FALSE
       /\ pc # "map" =>
             /\ master_ngs_ob'.mapping_success = master_ngs_ob.mapping_success
             /\ unmapped_ngsLib'.lib.mapping_success =>
                   unmapped_ngsLib.lib.mapping_success]_vars

\* the mapping of iteration 1 failed after that of iteration 0 succeeded:
\* the library of iteration 1 has no mapping_success, the run is stopped
\* and iteration 1 has no alignment
C16_Witness ==
    /\ pc = "exit1"
    /\ this_iteration = 1
    /\ unmapped_ngsLib.obj = "own"
    /\ ~CurLib.mapping_success
    /\ master_ngs_ob.mapping_success
    /\ iter_mapping_list[1] = EmptyIterMapping
    /\ iter_mapping_list[0].ref_fasta # None

\* C17: when the two clusters were evaluated in the same iteration, one with
\* code 3 and the other with code 0, the active set after that iteration is
\* the code-0 cluster alone and the faux genome written is its contig
\* between two buffers
C17_OnlyCodeZeroSurvives ==
    \A c, d \in Clusters :
        (/\ pc = "loop" /\ this_iteration >= 1
         /\ clusters[c].assembly_success = 3
         /\ clusters[d].assembly_success = 0
         /\ LastMapping(clusters[c]).iteration = this_iteration - 1
         /\ LastMapping(clusters[d]).iteration = this_iteration - 1) =>
            /\ clusters_to_process(clusters) = {d}
            /\ next_reference_path = this_iteration
            /\ genome_files[next_reference_path] =
                  <<NSeg(nbuff),
                    ContigSeg(d, this_iteration - 1, LastMapping(clusters[d]).contig_len),
                    NSeg(nbuff)>>

\* iteration 1 is over: cluster 1 was given code 3 and cluster 2 code 0 in it
C17_Witness ==
    /\ pc = "loop" /\ this_iteration = 2
    /\ clusters[1].assembly_success = 3
    /\ clusters[2].assembly_success = 0
    /\ Len(clusters[1].mappings) = 2
    /\ Len(clusters[2].mappings) = 2

\* C18: when the run is done the combined output has one contig for every
\* cluster that ended with code 1 or was still at code 0, none for a cluster
\* that ended with code 2 or 3, and no two clusters' contigs under one name
C18_OneContigPerSurvivingRegion ==
    pc = "done" =>
        /\ \A c \in Clusters :
              Cardinality({f \in assembled_seeds : f.clu = c})
                  = IF clusters[c].assembly_success \in {0, 1} THEN 1 ELSE 0
        /\ \A f, g \in assembled_seeds : f.clu # g.clu => f.name # g.name

\* the run is done, cluster 1 ended with code 1 and cluster 2 was still at
\* code 0: the combined output has the contig of cluster 2 only
C18_Witness ==
    /\ pc = "done"
    /\ clusters[1].assembly_success = 1
    /\ clusters[2].assembly_success = 0
    /\ {f.clu : f \in assembled_seeds} = {2}

\* C18, what the code keeps: one contig for every cluster still at code 0,
\* none for any other, under names that differ between clusters
C18_OneContigPerKeptRegion ==
    pc = "done" =>
        /\ \A c \in Clusters :
              Cardinality({f \in assembled_seeds : f.clu = c})
                  = IF clusters[c].assembly_success = 0 THEN 1 ELSE 0
        /\ \A f, g \in assembled_seeds : f.clu # g.clu => f.name # g.name

\* C19: every cluster is built with continue_iterating and keep_contig true,
\* and the first selection of the loop goes on to the mapping with all the
\* clusters selected
C19_AllActiveAtIteration0 ==
    /\ \A i \in DOMAIN clusters :
          clusters[i].continue_iterating /\ clusters[i].keep_contig
    /\ pc # "loop" =>
          /\ pc = "map"
          /\ Selected(clusters) = DOMAIN clusters

\* two clusters built with both flags true: the first selection raised
C19_Witness ==
    /\ pc = "AttributeError"
    /\ passes = 1
    /\ DOMAIN clusters = {1, 2}
    /\ \A i \in DOMAIN clusters :
          clusters[i].continue_iterating /\ clusters[i].keep_contig

\* C19, the flags alone: every cluster is built with continue_iterating and
\* keep_contig true
C19_FlagsDefaultTrue ==
    \A i \in DOMAIN clusters :
        clusters[i].continue_iterating /\ clusters[i].keep_contig

\* the least and the greatest of a set of integers
SetMin(S) == CHOOSE x \in S : \A y \in S : x <= y
SetMax(S) == CHOOSE x \in S : \A y \in S : x >= y

\* C20: in iteration 0 the range of a cluster is the least locus start minus
\* the upstream flank, not below 1, to the greatest locus end plus the
\* downstream flank, not above the sequence length, whatever the order of
\* the loci; loci spanning 1000-4000 on 10000 bp with flank 500:500 give
\* 500 to 4500
C20_ExtractionRange ==
    (pc = "units" /\ this_iteration = 0) =>
        \A c \in Clusters :
            LET clu    == clusters[c]
                loci   == Range(clu.loci_list)
                lo     == SetMin({l.start_coord : l \in loci})
                hi     == SetMax({l.end_coord : l \in loci})
                seqlen == SegsLen(genome_files[0])
            IN  /\ clu.global_start_coord = Max(1, lo - args.flank[1])
                /\ clu.global_end_coord = Min(seqlen, hi + args.flank[2])
                /\ (lo = 1000 /\ hi = 4000 /\ seqlen = 10000
                        /\ args.flank = <<500, 500>>) =>
                      /\ clu.global_start_coord = 500
                      /\ clu.global_end_coord = 4500

\* three loci spanning 1000-4000 listed out of order, 10000 bp, flank
\* 500:500: the range is 500 to 4500
C20_Witness ==
    /\ pc = "units" /\ this_iteration = 0
    /\ args.flank = <<500, 500>>
    /\ SegsLen(genome_files[0]) = 10000
    /\ clusters[1].loci_list =
          <<[start_coord |-> 3100, end_coord |-> 4000],
            [start_coord |-> 1000, end_coord |-> 1800],
            [start_coord |-> 2000, end_coord |-> 2900]>>
    /\ clusters[1].global_start_coord = 500
    /\ clusters[1].global_end_coord = 4500

\* C20, the limits: a range cut at 1 and a range cut at the sequence length
C20_WitnessClamped ==
    /\ pc = "units" /\ this_iteration = 0
    /\ clusters[1].global_start_coord = 1
    /\ clusters[1].global_end_coord = SegsLen(genome_files[0])
    /\ SetMin({l.start_coord : l \in Range(clusters[1].loci_list)}) - args.flank[1] < 1
    /\ SetMax({l.end_coord : l \in Range(clusters[1].loci_list)}) + args.flank[2]
           > SegsLen(genome_files[0])

\* a call on a contig that is present, not oversized and shorter than the
\* minimum assembly length
ShortCase(e) ==
    /\ e.called
    /\ e.contig_len > 0
    /\ ~(e.contig_len > e.seed_len * DANGEROUS_CONTIG_LENGTH_THRESHOLD_FACTOR)
    /\ e.th.min_assembly_len > e.contig_len

\* C21: a contig shorter than the minimum assembly length (present, not
\* oversized) gets code 2 and keep_contigs false when short contigs are not
\* allowed and code 1 when they are, whatever the target length and min_delta
C21_ShortContigClassified ==
    ShortCase(ev) =>
        IF ev.th.include_short_contigs
        THEN ev.code = 1
        ELSE ev.code = 2 /\ ~ev.cluster.keep_contigs

\* a contig of 5990 under a minimum of 6000, short contigs not allowed, in a
\* run whose accepted --target_len the evaluator leaves through sys.exit(1)
C21_Witness ==
    /\ ShortCase(ev)
    /\ ev.contig_len = 5990
    /\ ev.th.min_assembly_len = 6000
    /\ ~ev.th.include_short_contigs
    /\ ev.code = SysExit

\* whenever the evaluator returns, the short contig is classified as claimed
C21_ShortWhenReturned ==
    (ShortCase(ev) /\ ev.code # SysExit) =>
        IF ev.th.include_short_contigs
        THEN ev.code = 1
        ELSE ev.code = 2 /\ ~ev.cluster.keep_contigs

\* the contig of 5990 under a minimum of 6000 with no --target_len: code 2,
\* keep_contigs false
C21_Scenario ==
    /\ ShortCase(ev)
    /\ ev.contig_len = 5990
    /\ ev.th.min_assembly_len = 6000
    /\ ~ev.th.include_short_contigs
    /\ ~ev.th.proceed_to_target
    /\ ev.code = 2
    /\ ~ev.cluster.keep_contigs

\* a call with a target length the evaluator resolves, on a contig that is
\* present, not oversized and not short
TargetCase(e) ==
    /\ e.called
    /\ e.th.proceed_to_target
    /\ \/ e.th.target10 > 0 /\ e.th.target10 < 50
       \/ e.th.target10 > 500
    /\ e.contig_len > 0
    /\ ~(e.contig_len > e.seed_len * DANGEROUS_CONTIG_LENGTH_THRESHOLD_FACTOR)
    /\ ~(e.th.min_assembly_len > e.contig_len)

C22_WitnessMeets ==
    /\ TargetCase(ev)
    /\ ev.th.target10 = 50000
    /\ ev.contig_len = 5000
    /\ ev.iteration = 0
    /\ ev.code = 1

\* C23: every --target_len the check of __main__ accepts is resolved by the
\* evaluator: no call made after mapping and assembly leaves the run through
\* sys.exit(1) for an invalid target length
C23_AcceptedTargetResolved ==
    (ev.called /\ ~target_len_check(ev.th.target10).exit) => ev.code # SysExit

\* --target_len 50.0 passed the check of __main__ and the evaluator, called
\* on an assembled contig, exits
C23_Witness ==
    /\ ev.called
    /\ ~target_len_check(ev.th.target10).exit
    /\ ev.th.target10 = 500
    /\ ev.contig_len > 0
    /\ ev.code = SysExit

\* the evaluator exits for the two boundary values only
C23_ExitsOnlyAtBoundaries ==
    (ev.called /\ ev.code = SysExit) => ev.th.target10 \in {50, 500}

\* the clusters that had a unit in the current iteration
UnitsOfIteration ==
    {c \in Clusters : /\ clusters[c].mappings # <<>>
                      /\ LastMapping(clusters[c]).iteration = this_iteration}

\* C24: the outcome of a unit is decided by its contigs.fasta alone, not by
\* the exit status of its commands: once the units of an iteration are over,
\* a cluster without the file has code 3 and a cluster with it has the code
\* of the length rules, and a unit that left the file is never kept from
\* the evaluation by the run stopping on its exit status
C24_OutcomeDecidedByFile ==
    /\ pc = "advance" =>
          \A c \in UnitsOfIteration :
              /\ LastMapping(clusters[c]).contig_len = 0 =>
                     clusters[c].assembly_success = 3
              /\ LastMapping(clusters[c]).contig_len > 0 =>
                     /\ clusters[c].assembly_success # 3
                     /\ clusters[c].assembly_success = CodeOf(clusters[c])
    /\ pc = "exit1" =>
          \A c \in UnitsOfIteration \cap pending :
              LastMapping(clusters[c]).contig_len = 0

\* with --serialize the assembler of cluster 1 wrote a contig and exited
\* non-zero: the run stopped with the cluster not evaluated
C24_Witness ==
    /\ args.serialize
    /\ pc = "exit1"
    /\ 1 \in pending
    /\ LastMapping(clusters[1]).iteration = this_iteration
    /\ LastMapping(clusters[1]).contig_len > 0
    /\ clusters[1].assembly_success = None

\* in the pool the outcome follows the file whatever the units returned
C24_PooledOutcomeFromFile ==
    (~args.serialize /\ pc = "advance") =>
        \A c \in UnitsOfIteration :
            /\ results[c] \in {0, 1}
            /\ clusters[c].assembly_success = CodeOf(clusters[c])
            /\ LastMapping(clusters[c]).contig_len = 0 <=>
                   clusters[c].assembly_success = 3

\* in the pool: a unit that returned 0 without a contigs.fasta got code 3,
\* and a unit that returned 1 with one got the code of the length rules
C24_PooledCases ==
    /\ ~args.serialize
    /\ pc = "advance"
    /\ results[1] = 0 /\ LastMapping(clusters[1]).contig_len = 0
    /\ clusters[1].assembly_success = 3
    /\ results[2] = 1 /\ LastMapping(clusters[2]).contig_len > 0
    /\ clusters[2].assembly_success = 0

\* the read files the user supplied
MasterReadFiles ==
    {MasterFile("readF"), MasterFile("readR")}
        \cup (IF args.fastqS THEN {MasterFile("readS")} ELSE {})

\* C5: the read files of the master library are never deleted, in the loop
\* or in the post-loop cleanup, the loop ending after iteration 0 included
C5_MasterReadFilesKept == MasterReadFiles \subseteq read_files

\* the post-loop cleanup ran after a single pass and the user's forward
\* reads are gone
C5_Witness ==
    /\ pc = "collect"
    /\ passes = 1
    /\ unmapped_ngsLib.obj = "master"
    /\ MasterFile("readF") \notin read_files

\* C6: the master library is never mutated after construction: its forward,
\* reverse and singleton read files and its reference path stay as built
C6_MasterNeverMutated ==
    /\ master_ngs_ob.readF = MasterLib(args.fastqS).readF
    /\ master_ngs_ob.readR = MasterLib(args.fastqS).readR
    /\ master_ngs_ob.readS0 = MasterLib(args.fastqS).readS0
    /\ master_ngs_ob.ref_fasta = MasterLib(args.fastqS).ref_fasta

\* the master library points at a faux genome, and its singleton file was
\* dropped by the first mapping
C6_Witness ==
    /\ master_ngs_ob.ref_fasta # 0
    /\ args.fastqS
    /\ master_ngs_ob.readS0 = NoFile

\* the clusters partition_mapping prepared a mapping for in the current pass
ExtractedNow ==
    {c \in Clusters :
        /\ clusters[c].mappings # <<>>
        /\ LastMapping(clusters[c]).iteration = this_iteration}

\* the contig cluster clu assembled in iteration i, as a segment
ContigOf(clu, i) ==
    LET k == CHOOSE j \in DOMAIN clu.mappings : clu.mappings[j].iteration = i
    IN  ContigSeg(clu.index, i, clu.mappings[k].contig_len)

\* C7: a region active in iteration i > 0 is extracted with the offsets the
\* reconstitution at the end of iteration i-1 gave it, inside that faux
\* genome, which is its sequence record and the genome the reads were mapped
\* to; in iteration 0 the coordinates are those of the loci on the reference
C7_CoordinateConsistency ==
    pc \in {"units", "advance"} =>
        \A c \in ExtractedNow :
            LET clu == clusters[c]
                i   == this_iteration
                g   == genome_files[clu.seq_record]
                a   == clu.global_start_coord
                b   == clu.global_end_coord
            IN  IF i > 0
                THEN /\ clu.seq_record = i
                     /\ iter_mapping_list[i].ref_fasta = i
                     /\ clu.sequence_id = "faux"
                     /\ 0 <= a /\ a < b /\ b <= SegsLen(g)
                     /\ Slice(g, a, b) = <<ContigOf(clu, i - 1)>>
                     /\ LastMapping(clu).ref_fasta = <<ContigOf(clu, i - 1)>>
                ELSE /\ clu.seq_record = 0
                     /\ iter_mapping_list[i].ref_fasta = 0
                     /\ clu.sequence_id = "ref"
                     /\ a = NextCoords_from_loci(clu, RefLen).start
                     /\ b = NextCoords_from_loci(clu, RefLen).end
                     /\ \A k \in DOMAIN LastMapping(clu).ref_fasta :
                            LastMapping(clu).ref_fasta[k].kind = "ref"

\* both regions extracted from the faux genome in iteration 1
C7_Witness ==
    pc = "advance" /\ this_iteration = 1 /\ ExtractedNow = Clusters

\* the regions make_faux_genome stitched together
Surviving == clusters_to_process(clusters)

OnlyN(segs) == \A k \in DOMAIN segs : segs[k].kind = "N"

\* C8: after reconstitution, the new sequence between a surviving region's
\* start and end is its most recent contig, and two surviving regions are
\* disjoint with at least the whole buffer of N between them
C8_FauxGenomeLayout ==
    (pc = "loop" /\ next_reference_path \notin {0, None}) =>
        LET g == genome_files[next_reference_path]
        IN  /\ \A c \in Surviving :
                  LET clu == clusters[c]
                      m   == LastMapping(clu)
                  IN  /\ clu.global_end_coord - clu.global_start_coord = m.contig_len
                      /\ Slice(g, clu.global_start_coord, clu.global_end_coord)
                            = <<ContigSeg(c, m.iteration, m.contig_len)>>
            /\ \A c, d \in Surviving :
                  clusters[c].global_start_coord < clusters[d].global_start_coord =>
                      /\ clusters[c].global_end_coord + nbuff
                            <= clusters[d].global_start_coord
                      /\ OnlyN(Slice(g, clusters[c].global_end_coord,
                                     clusters[d].global_start_coord))
            /\ \A c, d \in Surviving :
                  c # d => clusters[c].global_start_coord
                              # clusters[d].global_start_coord

\* two regions stitched into the faux genome a second time
C8_Witness ==
    pc = "loop" /\ next_reference_path = 2 /\ Surviving = Clusters

IdsOf(recs) == {r.id : r \in recs}

\* C9: in every iteration no identifier of a region-local subset appears in
\* that iteration's unmapped alignment
C9_Exclusivity ==
    \A c \in Clusters :
        \A k \in DOMAIN clusters[c].mappings :
            LET m == clusters[c].mappings[k]
            IN  IdsOf(m.mapped_bam)
                  \cap IdsOf(iter_mapping_list[m.iteration].unmapped_sam) = {}

\* one mate of a pair lies in the second region, the other mate in none, and
\* another read is left in the unmapped alignment
C9_Witness ==
    /\ pc = "units"
    /\ \E r \in PairRecords :
          /\ r \in LastMapping(clusters[2]).mapped_bam
          /\ \A c \in Clusters :
                [r EXCEPT !.mate = 3 - r.mate] \notin LastMapping(clusters[c]).mapped_bam
    /\ iter_mapping_list[this_iteration].unmapped_sam # {}

\* the iterations partition_mapping has run for
PartitionedIterations ==
    {i \in Iterations :
        \E c \in Clusters : \E k \in DOMAIN clusters[c].mappings :
            clusters[c].mappings[k].iteration = i}

\* C10: the identifiers claimed as mapped in iteration i include those
\* claimed in iteration i-1
C10_ClaimedIdsMonotone ==
    \A i \in PartitionedIterations \ {0} :
        Range(iter_mapping_list[i - 1].mapped_ids_txt)
            \subseteq Range(iter_mapping_list[i].mapped_ids_txt)

\* identifiers were claimed in iteration 0 and more were added in iteration 1
C10_Witness ==
    /\ 1 \in PartitionedIterations
    /\ iter_mapping_list[0].mapped_ids_txt # <<>>
    /\ Range(iter_mapping_list[1].mapped_ids_txt)
          # Range(iter_mapping_list[0].mapped_ids_txt)

\* the iterations whose whole-library mapping has been run
MappedIterations ==
    {i \in DOMAIN iter_mapping_list : iter_mapping_list[i].ref_fasta # None}

\* iteration i mapped what the claim says: the master library against the
\* original reference, or the reads of the unmapped alignment of iteration
\* i-1 against the faux genome written at the end of iteration i-1
MapsAsClaimed(i) ==
    IF i = 0
    THEN /\ iter_mapping_list[0].ref_fasta = 0
         /\ {MasterFile("readF"), MasterFile("readR")}
               \subseteq iter_mapping_list[0].inputs
         /\ iter_mapping_list[0].inputs \subseteq MasterReadFiles
    ELSE /\ iter_mapping_list[i].ref_fasta = i
         /\ genome_files[i] # <<>>
         /\ iter_mapping_list[i].inputs = {UnmappedFile(i, "readS")}
         /\ iter_mapping_list[i].mapped_bam = iter_mapping_list[i - 1].unmapped_sam

\* the mapping of iteration i >= 1 starts after the partition, the
\* evaluation and the faux genome of iteration i-1
StartsAfterPrevious ==
    (pc = "map" /\ this_iteration >= 1) =>
        /\ pending = {}
        /\ this_iteration - 1 \in MappedIterations
        /\ genome_files[this_iteration] # <<>>
        /\ next_reference_path = this_iteration
        /\ \A c \in Clusters :
              \A k \in DOMAIN clusters[c].mappings :
                  clusters[c].mappings[k].iteration = this_iteration - 1 =>
                      clusters[c].assembly_success # None

\* C25: iteration 0 maps the master library against the original reference,
\* every iteration i >= 1 maps the reads of the unmapped alignment of
\* iteration i-1 against the faux genome built at the end of iteration i-1,
\* and does not start before iteration i-1 was partitioned, evaluated and
\* its faux genome written
C25_MapsPreviousUnmapped ==
    /\ \A i \in MappedIterations : MapsAsClaimed(i)
    /\ StartsAfterPrevious

\* with --ignoreS iteration 1 was mapped with no read file at all
C25_Witness ==
    /\ args.ignoreS
    /\ pc = "partition"
    /\ this_iteration = 1
    /\ 1 \in MappedIterations
    /\ iter_mapping_list[1].inputs = {}

\* without --ignoreS every iteration maps as claimed
C25_MapsPreviousUnmappedWithSingletons ==
    ~args.ignoreS =>
        /\ \A i \in MappedIterations : MapsAsClaimed(i)
        /\ StartsAfterPrevious

\* without --ignoreS iteration 2 mapped the reads iteration 1 left unmapped
C25_WitnessFollowed ==
    /\ 2 \in MappedIterations
    /\ iter_mapping_list[1].unmapped_sam # {}
    /\ iter_mapping_list[2].mapped_bam = iter_mapping_list[1].unmapped_sam
    /\ iter_mapping_list[2].ref_fasta = 2

\* the loop is running: the post-loop purge has not been reached
InLoop == pc \in {"loop", "map", "partition", "units", "advance", "exit1"}

\* C26: while the loop runs, the whole-library files unlinked are those of
\* iterations at least two before the current one, never those of the
\* current or the previous iteration; the read file the mapping of an
\* iteration reads is on disk, and the loop never stops on a purged file
C26_PurgeTwoBack ==
    InLoop =>
        /\ \A k \in DOMAIN iter_mapping_list :
              iter_mapping_list[k].purged =>
                  /\ ~args.keep_temps
                  /\ k + 2 <= this_iteration
        /\ (pc = "map" /\ this_iteration >= 1) =>
              /\ ~iter_mapping_list[this_iteration - 1].purged
              /\ UnmappedFile(this_iteration, "readS") \in read_files
        /\ (pc = "exit1" /\ this_iteration >= 1) =>
              ~iter_mapping_list[this_iteration - 1].purged

\* iteration 2 is about to be mapped: the files of iteration 0 are gone,
\* those of iteration 1 are there, and so is the read file written from
\* iteration 1's unmapped alignment
C26_Witness ==
    /\ pc = "map"
    /\ this_iteration = 2
    /\ iter_mapping_list[0].purged
    /\ ~iter_mapping_list[1].purged
    /\ UnmappedFile(1, "readS") \notin read_files
    /\ UnmappedFile(2, "readS") \in read_files

\* the other mate of a record of a pair
MateOf(r) == [r EXCEPT !.mate = 3 - r.mate]

\* record r of the whole-library alignment of iteration i lies in the
\* region-local subset of some cluster
ClaimedByRegion(r, i) ==
    \E c \in Clusters : \E k \in DOMAIN clusters[c].mappings :
        /\ clusters[c].mappings[k].iteration = i
        /\ r \in clusters[c].mappings[k].mapped_bam

\* the pairs of which, in iteration i, one mate lies in a region-local
\* subset and the other mate, aligned too, in none
HalfClaimed(i) ==
    {r \in PairRecords \cap iter_mapping_list[i].mapped_bam :
        /\ ClaimedByRegion(r, i)
        /\ MateOf(r) \in iter_mapping_list[i].mapped_bam
        /\ ~ClaimedByRegion(MateOf(r), i)}

\* C27: paired inference not being enabled, when only one mate of a pair
\* overlaps a region's range the region claims that mate alone and the other
\* mate stays in the complement: it is in the iteration's unmapped alignment
C27_OtherMateStaysInComplement ==
    \A i \in PartitionedIterations :
        \A r \in HalfClaimed(i) :
            MateOf(r) \in iter_mapping_list[i].unmapped_sam

\* iteration 0 partitioned: mate 1 of the pair is in the subset of cluster 1,
\* mate 2 is in no subset and is not in the unmapped alignment either
C27_Witness ==
    /\ pc = "units"
    /\ this_iteration = 0
    /\ [id |-> 1, mate |-> 1] \in LastMapping(clusters[1]).mapped_bam
    /\ [id |-> 1, mate |-> 1] \in HalfClaimed(0)
    /\ [id |-> 1, mate |-> 2] \notin iter_mapping_list[0].unmapped_sam

\* the other mate of a half-claimed pair is in neither partition
C27_OtherMateDropped ==
    \A i \in PartitionedIterations :
        \A r \in HalfClaimed(i) :
            /\ ~ClaimedByRegion(MateOf(r), i)
            /\ MateOf(r) \notin iter_mapping_list[i].unmapped_sam

\* the coordinates and the sequence identifier of a cluster
Placement(clus, c) ==
    <<clus[c].global_start_coord, clus[c].global_end_coord, clus[c].sequence_id>>

\* make_faux_genome on a list of clusters none of which has keep_contigs and
\* continue_iterating both true: the sentinel, no record written, no
\* cluster changed
SentinelFor(L) ==
    LET r == make_faux_genome(InOrder(L), clusters)
    IN  /\ ~r.ok
        /\ r.record = <<>>
        /\ \A c \in Clusters : Placement(r.clusters, c) = Placement(clusters, c)

\* C28: when no cluster handed to the reconstitution has keep_contigs and
\* continue_iterating both true, make_faux_genome returns the sentinel,
\* writes no genome and changes no cluster's coordinates or sequence
\* identifier, and the step that ends the pass writes no genome file, leaves
\* the clusters' placement alone and leaves the loop test failing
C28_NoSurvivorNoGenome ==
    [][(pc = "advance" /\ clusters_to_process(clusters) = {}) =>
          /\ \A L \in SUBSET Clusters : SentinelFor(L)
          /\ genome_files' = genome_files
          /\ \A c \in Clusters : Placement(clusters', c) = Placement(clusters, c)
          /\ next_reference_path' = None
          /\ pc' = "loop"
          /\ ~(this_iteration' <= args.iterations)]_vars

\* the first pass of a run of two iterations ended with both clusters
\* evaluated and excluded: no faux genome 1, the clusters still on the
\* reference, the loop over
C28_Witness ==
    /\ pc = "loop"
    /\ passes = 1
    /\ args.iterations = 1
    /\ clusters_to_process(clusters) = {}
    /\ \A c \in Clusters : clusters[c].assembly_success \in {1, 2, 3}
    /\ genome_files[1] = <<>>
    /\ \A c \in Clusters : clusters[c].sequence_id = "ref"
    /\ next_reference_path = None
    /\ this_iteration > args.iterations

\* C29: a cluster whose continue_iterating is false is left as it is by
\* every step: it is in no active set, no unit is dispatched for it, it gets
\* no new mapping and no evaluation, and neither of its flags becomes true
\* again
C29_StoppedIsTerminal ==
    [][\A c \in Clusters :
          ~clusters[c].continue_iterating =>
              /\ clusters'[c] = clusters[c]
              /\ c \notin clusters_to_process(clusters')
              /\ c \notin pending']_vars

\* cluster 1 was stopped in iteration 0 and has the one mapping of that
\* iteration; cluster 2 went on and has been evaluated in iteration 1
C29_Witness ==
    /\ pc = "advance"
    /\ this_iteration = 1
    /\ ~clusters[1].continue_iterating
    /\ ~clusters[1].keep_contigs
    /\ Len(clusters[1].mappings) = 1
    /\ Len(clusters[2].mappings) = 2
    /\ clusters[2].assembly_success = 0

\* a call on a contig that passed the checks for missing output, oversized
\* and short contigs and did not reach a target, its length within
\* min_delta of the seed's
PlateauCase(e) ==
    /\ e.called
    /\ e.code # SysExit
    /\ e.contig_len > 0
    /\ ~(e.contig_len > e.seed_len * DANGEROUS_CONTIG_LENGTH_THRESHOLD_FACTOR)
    /\ ~(e.th.min_assembly_len > e.contig_len)
    /\ ~(e.th.proceed_to_target
         /\ e.contig_len >= TargetSeedLen(e.th, e.seed_len))
    /\ Abs(e.contig_len - e.seed_len) < e.th.min_delta

\* C30: the plateau rule applies after the first iteration only: a contig
\* within min_delta of the seed that passed the earlier checks gets code 0
\* in iteration 0 and code 1 in any later iteration, whether it grew or
\* shrank
C30_PlateauAfterFirstIteration ==
    PlateauCase(ev) => ev.code = (IF ev.iteration = 0 THEN 0 ELSE 1)

\* the default min_delta of 10, iteration 1, a contig SmallStep shorter than
\* the seed: code 1
C30_Witness ==
    /\ PlateauCase(ev)
    /\ ev.th.min_delta = 10
    /\ ev.iteration = 1
    /\ ev.contig_len = ev.seed_len - SmallStep
    /\ ev.code = 1

\* the same contig at iteration 0: code 0
C30_WitnessFirstIteration ==
    /\ PlateauCase(ev)
    /\ ev.th.min_delta = 10
    /\ ev.iteration = 0
    /\ ev.contig_len = ev.seed_len - SmallStep
    /\ ev.code = 0

\* a contig SmallStep longer than the seed in iteration 2: code 1
C30_WitnessGrew ==
    /\ PlateauCase(ev)
    /\ ev.iteration = 2
    /\ ev.contig_len = ev.seed_len + SmallStep
    /\ ev.code = 1

\* the copies parse_subassembly_return_code made for the clusters it gave
\* code 1
FinalIterCopies(c) ==
    {f \in final_long_reads_dir : f.clu = c /\ f.name.iteration # None}

\* C31: a cluster's contig is copied into final_long_reads_dir by the
\* evaluation exactly when its code is 1 and at most once, and once the run
\* is done the contig of every cluster that was given code 1 is there
C31_CodeOneContigCopied ==
    pc = "done" =>
        \A c \in Clusters :
            /\ Cardinality(FinalIterCopies(c)) <= 1
            /\ FinalIterCopies(c) # {} <=> clusters[c].assembly_success = 1
            /\ clusters[c].assembly_success = 1 =>
                   \E f \in final_long_reads_dir :
                       /\ f.clu = c
                       /\ f.contig_len = LastMapping(clusters[c]).contig_len

\* the run is done, cluster 1 was given code 1 and no file of
\* final_long_reads_dir holds its contig
C31_Witness ==
    /\ pc = "done"
    /\ clusters[1].assembly_success = 1
    /\ LastMapping(clusters[1]).contig_len > 0
    /\ \A f \in final_long_reads_dir : f.clu # 1

\* what the code keeps: a copy is tried for the clusters given code 1 only,
\* at most one is made for a cluster, and it lies under the subdirectory its
\* name gives, outside the files combine_contigs reads
C31_CopyOnlyForCodeOne ==
    pc = "done" =>
        \A c \in Clusters :
            /\ Cardinality(FinalIterCopies(c)) <= 1
            /\ FinalIterCopies(c) # {} => clusters[c].assembly_success = 1
            /\ \A f \in FinalIterCopies(c) :
                  /\ f.name.subdir = "contigs.fasta"
                  /\ f \notin assembled_seeds

\* a list of identifiers in increasing order without a repeated one
SortedUnique(ids) == \A i, j \in DOMAIN ids : i < j => ids[i] < ids[j]

\* C32: after the partitioning of an iteration the stored list of claimed
\* identifiers is sorted and holds no identifier twice
C32_ClaimedIdsSortedUnique ==
    \A i \in PartitionedIterations :
        SortedUnique(iter_mapping_list[i].mapped_ids_txt)

\* iteration 0 partitioned with both mates of the pair in the subset of
\* cluster 1: the stored list holds the identifier twice
C32_Witness ==
    /\ pc = "units"
    /\ this_iteration = 0
    /\ PairRecords \subseteq LastMapping(clusters[1]).mapped_bam
    /\ Len(iter_mapping_list[0].mapped_ids_txt) >= 2
    /\ iter_mapping_list[0].mapped_ids_txt[1] = iter_mapping_list[0].mapped_ids_txt[2]

\* the stored list is the previous iteration's list followed by the
\* identifier column of every region's records, in the order written
C32_ListAsAppended ==
    \A i \in PartitionedIterations \ {0} :
        LET prev == iter_mapping_list[i - 1].mapped_ids_txt
            cur  == iter_mapping_list[i].mapped_ids_txt
        IN  /\ Len(prev) <= Len(cur)
            /\ \A k \in DOMAIN prev : cur[k] = prev[k]

-----------------------------------------------------------------------------
(* The minimum score handed to the mapper, iteration after iteration *)

\* the iterations the minimum score is followed over
ScoreIterations == 3

\* get_ave_read_len_from_fastq: the read length of the master library, which
\* the library of unmapped reads takes over in every later iteration
ReadLens == {36, 75, 100, 101, 150, 151, 250, 301}

\* -s/--score_min: not given, or an integer
ScoreMinChoices == {None, 0, 20}

\* -m/--method_for_map, default bwa
Methods == {"smalt", "bwa"}

\* if not args.score_min
unset(score_min) == score_min = None \/ score_min = 0

\* main, before the mapping call: scaling_factor = 1 - 1/(2 + this_iteration)
\* and int(readlen * scaling_factor) with smalt, None with bwa, and the
\* option's value when it is one that counts as true
score_minimum(method, score_min, readlen, iteration) ==
    IF unset(score_min)
    THEN IF method = "smalt"
         THEN (readlen * (iteration + 1)) \div (iteration + 2)
         ELSE None
    ELSE score_min

\* map_to_genome_ref_bwa: "-T score_minimum", or no option at all;
\* map_to_genome_ref_smalt asserts that a minimum is given and passes it
score_min_option(method, minimum) ==
    IF method = "bwa" /\ minimum = None THEN "" ELSE "given"

InitScore == InitRun({DefaultArgs}) /\ ev = NoCall

\* iteration 0 of a run: the minimum for the first mapping call
ScoreCall ==
    /\ ~ev.called
    /\ \E method \in Methods, score_min \in ScoreMinChoices, readlen \in ReadLens :
          LET m == score_minimum(method, score_min, readlen, 0)
          IN  ev' = [called |-> TRUE, method |-> method,
                     score_min |-> score_min, readlen |-> readlen,
                     iteration |-> 0, score_minimum |-> m,
                     option |-> score_min_option(method, m),
                     previous |-> None]
    /\ UNCHANGED loopvars

\* the next iteration of the same run: the minimum for its mapping call
ScoreAgain ==
    /\ ev.called
    /\ ev.iteration < ScoreIterations
    /\ LET m == score_minimum(ev.method, ev.score_min, ev.readlen, ev.iteration + 1)
       IN  ev' = [ev EXCEPT !.iteration = ev.iteration + 1,
                            !.score_minimum = m,
                            !.option = score_min_option(ev.method, m),
                            !.previous = ev.score_minimum]
    /\ UNCHANGED loopvars

NextScore == ScoreCall \/ ScoreAgain

SpecScore == InitScore /\ [][NextScore]_vars

\* C33: when no minimum score is supplied one is computed from the read
\* length and the iteration before every mapping call, and it (and the
\* fraction of the read length it is) is never lower in iteration i+1 than
\* in iteration i
C33_MinimumComputedAndNeverLower ==
    (ev.called /\ unset(ev.score_min)) =>
        /\ ev.score_minimum # None
        /\ ev.option = "given"
        /\ ev.iteration > 0 => ev.score_minimum >= ev.previous

\* the default mapper with no minimum supplied: nothing is computed and the
\* mapper is called without the option, in the first iteration and in a
\* later one
C33_Witness ==
    /\ ev.called
    /\ ev.method = "bwa"
    /\ ev.score_min = None
    /\ ev.iteration = 2
    /\ ev.score_minimum = None
    /\ ev.option = ""

\* with smalt the computed minimum is a number within the read length, is
\* never lower than one iteration before, and is higher at iteration 1 than
\* at iteration 0
C33_SmaltNeverLower ==
    (ev.called /\ unset(ev.score_min) /\ ev.method = "smalt") =>
        /\ ev.score_minimum \in 0..ev.readlen
        /\ ev.iteration > 0 => ev.score_minimum >= ev.previous
        /\ ev.iteration = 1 => ev.score_minimum > ev.previous
        /\ 2 * ev.score_minimum >= ev.readlen - 1

\* a supplied minimum is passed on as it is in every iteration
C33_SuppliedPassedOn ==
    (ev.called /\ ~unset(ev.score_min)) =>
        ev.score_minimum = ev.score_min /\ ev.option = "given"

-----------------------------------------------------------------------------
(* The paths of the files of a cluster in one iteration *)

\* os.path.join of two path components
path_join(a, b) == a \o "/" \o b

\* LociCluster.name_mapping_dir, called once by __init__ with the sequence
\* identifier of the reference: "{sequence_id}_cluster_{index}"
cluster_dir_name(cluster) == "ref" \o "_cluster_" \o ToString(cluster.index)

mapping_subdir_by_sequence(cluster, iteration) ==
    path_join(cluster.sequence_id,
              cluster.sequence_id \o "_mapping_iteration_" \o ToString(iteration))

\* prepare_next_mapping: output_root/cluster_dir_name/
\* "{sequence_id}_cluster_{index}_mapping_iteration_{this_iteration}"
mapping_subdir(cluster, iteration) ==
    path_join(cluster_dir_name(cluster),
              cluster.sequence_id \o "_cluster_" \o ToString(cluster.index)
                  \o "_mapping_iteration_" \o ToString(iteration))

\* prepare_next_mapping: output_root/cluster_dir_name/
\* "{sequence_id}_cluster_{index}_assembly_iteration_{this_iteration}"
assembly_subdir(cluster, iteration) ==
    path_join(cluster_dir_name(cluster),
              cluster.sequence_id \o "_cluster_" \o ToString(cluster.index)
                  \o "_assembly_iteration_" \o ToString(iteration))

\* LociMapping.name_bams_and_sams with the name prepare_next_mapping gives:
\* mapping_subdir/"{sequence_id}_cluster_{index}_iteration_{iteration}"
mapping_prefix(cluster, iteration) ==
    path_join(mapping_subdir(cluster, iteration),
              cluster.sequence_id \o "_cluster_" \o ToString(cluster.index)
                  \o "_iteration_" \o ToString(iteration))

\* what the unit of a cluster writes: the fastq convert_bam_to_fastqs_cmd
\* names after mapped_bam without its extension (single=True: the readS file
\* alone is written), and the output directory of the assembler with the
\* contigs.fasta in it
UnitWrites(cluster, iteration) ==
    {mapping_prefix(cluster, iteration) \o "_mappedreadS.fastq",
     assembly_subdir(cluster, iteration),
     path_join(assembly_subdir(cluster, iteration), "contigs.fasta")}

\* what the unit of a cluster reads: its mapped_bam and the extracted seed
\* sequence handed to the assembler as a trusted contig
UnitReads(cluster, iteration) ==
    {mapping_prefix(cluster, iteration) \o ".bam",
     path_join(mapping_subdir(cluster, iteration), "extracted_seed_sequence.fasta")}

\* C35: the units running together in the pool never write to the same
\* path: the paths of two clusters of one iteration differ, also once both
\* clusters carry the sequence identifier of the faux genome
C35_UnitPathsDistinct ==
    pc = "units" =>
        \A c \in UnitsOfIteration : \A d \in UnitsOfIteration \ {c} :
            LET wc == UnitWrites(clusters[c], this_iteration)
                wd == UnitWrites(clusters[d], this_iteration)
                rd == UnitReads(clusters[d], this_iteration)
            IN  /\ wc \cap wd = {}
                /\ wc \cap rd = {}
                /\ mapping_subdir(clusters[c], this_iteration)
                       # mapping_subdir(clusters[d], this_iteration)

\* the pool of an iteration after the first with both units waiting, both
\* clusters renamed to the faux genome
C35_Witness ==
    /\ ~args.serialize
    /\ pc = "units"
    /\ this_iteration >= 1
    /\ pending = {1, 2}
    /\ clusters[1].sequence_id = "faux"
    /\ clusters[2].sequence_id = "faux"
    /\ Cardinality(UnitWrites(clusters[1], this_iteration)
                     \cup UnitWrites(clusters[2], this_iteration)) = 6

\* the paths of a cluster differ from one iteration to the next as well
C35_PathsDifferAcrossIterations ==
    \A c \in Clusters : \A i, j \in Iterations :
        i # j => UnitWrites(clusters[c], i) \cap UnitWrites(clusters[c], j) = {}

\* C36: a cluster has exactly one mapping for every iteration it was active
\* in: the iteration numbers of its mappings increase strictly (they are
\* 0, 1, 2, ... as the cluster is active from iteration 0 until it stops),
\* and while the clusters of iteration i are assembled and evaluated the
\* last mapping of each of them is the one of iteration i
C36_OneMappingPerActiveIteration ==
    /\ \A c \in Clusters :
          LET ms == clusters[c].mappings
          IN  /\ \A k, l \in DOMAIN ms : k < l => ms[k].iteration < ms[l].iteration
              /\ \A k \in DOMAIN ms : ms[k].iteration = k - 1
    /\ pc = "units" =>
          \A c \in clusters_to_process(clusters) :
              /\ clusters[c].mappings # <<>>
              /\ LastMapping(clusters[c]).iteration = this_iteration
              /\ Len(clusters[c].mappings) = this_iteration + 1
    /\ pc = "advance" =>
          \A c \in Clusters :
              clusters[c].mappings # <<>> => LastMapping(clusters[c]).iteration <= this_iteration

\* the units of the last iteration are over: cluster 1 has been active in
\* every iteration and has one mapping for each, cluster 2 stopped after
\* iteration 0 and has one mapping
C36_Witness ==
    /\ pc = "units"
    /\ pending = {}
    /\ this_iteration = MaxIterations
    /\ clusters_to_process(clusters) = {1}
    /\ Len(clusters[1].mappings) = MaxIterations + 1
    /\ LastMapping(clusters[1]).iteration = MaxIterations
    /\ Len(clusters[2].mappings) = 1

\* C37: every index used into the history of whole-library mappings lies in
\* 0..K, K the number of iterations asked for: this_iteration while mapping
\* and partitioning, this_iteration - 1 where the unmapped reads of the
\* previous iteration are converted and its list of claimed identifiers is
\* taken over, and this_iteration - 2 where old files are purged, so that
\* the assertion of the purge on its target never fails
C37_HistoryIndexInRange ==
    LET hist == DOMAIN iter_mapping_list
    IN  /\ hist = 0..args.iterations
        /\ pc \in {"map", "partition", "units", "advance"} =>
              /\ this_iteration \in hist
              /\ this_iteration # 0 => this_iteration - 1 \in hist
        /\ (pc = "loop" /\ this_iteration <= args.iterations) =>
              /\ this_iteration \in hist
              /\ this_iteration # 0 => this_iteration - 1 \in hist
              /\ purge_due(this_iteration) =>
                    /\ target_iters(this_iteration, FALSE) \subseteq hist
                    /\ \A t \in target_iters(this_iteration, FALSE) : t >= 0

\* the last iteration asked for is being mapped after the purge of the files
\* of two iterations before
C37_Witness ==
    /\ pc = "map"
    /\ ~args.keep_temps
    /\ args.iterations = MaxIterations
    /\ this_iteration = args.iterations
    /\ this_iteration - 2 >= 0
    /\ iter_mapping_list[this_iteration - 2].purged
    /\ ~iter_mapping_list[this_iteration - 1].purged

\* the mapping of a cluster for iteration i
MappingOf(clu, i) ==
    clu.mappings[CHOOSE k \in DOMAIN clu.mappings : clu.mappings[k].iteration = i]

\* C38: for a cluster active in iteration i > 0 the seed sequence extracted
\* from the faux genome is the contig assembled for it in iteration i-1,
\* whole and alone: its first base to its last, no buffer symbol with it
C38_SeedIsPreviousContig ==
    \A c \in Clusters : \A k \in DOMAIN clusters[c].mappings :
        LET m == clusters[c].mappings[k]
        IN  m.iteration > 0 =>
              LET prev == MappingOf(clusters[c], m.iteration - 1)
              IN  /\ prev.contig_len > 0
                  /\ SegsLen(m.ref_fasta) = prev.contig_len
                  /\ Len(m.ref_fasta) = 1
                  /\ m.ref_fasta[1].kind = "contig"
                  /\ m.ref_fasta[1].clu = c
                  /\ m.ref_fasta[1].iter = m.iteration - 1
                  /\ m.ref_fasta[1].from = 0
                  /\ m.ref_fasta[1].len = prev.contig_len

\* the second of two clusters of the faux genome, which lies behind the
\* first contig and two buffers, in the last iteration, after contigs of
\* different lengths in the two iterations before
C38_Witness ==
    /\ pc = "units"
    /\ this_iteration = MaxIterations
    /\ this_iteration >= 2
    /\ clusters_to_process(clusters) = Clusters
    /\ clusters[2].global_start_coord > clusters[1].global_end_coord
    /\ SegsLen(LastMapping(clusters[2]).ref_fasta)
          # SegsLen(MappingOf(clusters[2], this_iteration - 1).ref_fasta)
    /\ SegsLen(LastMapping(clusters[2]).ref_fasta)
          = MappingOf(clusters[2], this_iteration - 1).contig_len

\* C39: in iteration 0 the seed sequence extracted for a cluster covers
\* every position of the 1-based inclusive range global_start_coord to
\* global_end_coord: it has global_end_coord - global_start_coord + 1 bases
\* and its first base is the one at position global_start_coord
C39_SeedCoversInclusiveRange ==
    (pc = "units" /\ this_iteration = 0) =>
        \A c \in Clusters :
            LET clu == clusters[c]
                seed == LastMapping(clu).ref_fasta
            IN  /\ SegsLen(seed) = clu.global_end_coord - clu.global_start_coord + 1
                /\ seed # <<>>
                /\ seed[1].from + 1 = clu.global_start_coord

\* loci spanning 1000-4000 with flank 500:500 on 10000 bp: the range is 500
\* to 4500, 4001 positions, and the seed has 4000 bases, the first of them
\* the base at position 501
C39_Witness ==
    /\ pc = "units" /\ this_iteration = 0
    /\ args.flank = <<500, 500>>
    /\ clusters[1].global_start_coord = 500
    /\ clusters[1].global_end_coord = 4500
    /\ SegsLen(LastMapping(clusters[1]).ref_fasta) = 4000
    /\ LastMapping(clusters[1]).ref_fasta[1].from + 1 = 501

\* what the slice seq[global_start_coord:global_end_coord] takes: the
\* positions global_start_coord + 1 to global_end_coord, also when the
\* start was raised to 1, where the first base of the sequence is left out
C39_SeedSkipsFirstPosition ==
    (pc = "units" /\ this_iteration = 0) =>
        \A c \in Clusters :
            LET clu == clusters[c]
                seed == LastMapping(clu).ref_fasta
            IN  /\ SegsLen(seed) = clu.global_end_coord - clu.global_start_coord
                /\ Len(seed) = 1
                /\ seed[1].kind = "ref"
                /\ seed[1].from + 1 = clu.global_start_coord + 1

\* C40: in every iteration and for every setting of ignore_singletons the
\* aligner is handed at least one read file of the current pool; in an
\* iteration i >= 1 that is the single read file written from the unmapped
\* alignment of iteration i-1
C40_AlignerGetsReads ==
    \A i \in MappedIterations :
        /\ iter_mapping_list[i].inputs # {}
        /\ i >= 1 => UnmappedFile(i, "readS") \in iter_mapping_list[i].inputs

\* with --ignoreS the pool of iteration 1 had its read file on disk and the
\* aligner was handed none: every unit of the iteration ended without an
\* assembly
C40_Witness ==
    /\ args.ignoreS
    /\ pc = "units"
    /\ pending = {}
    /\ this_iteration = 1
    /\ iter_mapping_list[0].inputs # {}
    /\ UnmappedFile(1, "readS") \in read_files
    /\ iter_mapping_list[1].inputs = {}
    /\ \A c \in UnitsOfIteration : LastMapping(clusters[c]).contig_len = 0

\* iteration 0 always maps the paired files, and without --ignoreS every
\* later iteration maps the read file of its pool
C40_AlignerGetsReadsOtherwise ==
    \A i \in MappedIterations :
        /\ i = 0 => {MasterFile("readF"), MasterFile("readR")}
                        \subseteq iter_mapping_list[0].inputs
        /\ (i >= 1 /\ ~args.ignoreS) =>
               iter_mapping_list[i].inputs = {UnmappedFile(i, "readS")}
        /\ (i >= 1 /\ args.ignoreS) => iter_mapping_list[i].inputs = {}

=============================================================================
